---------------------------- MODULE Spec2Model ----------------------------
(***************************************************************************)
(* SG-Bookkeeper: the journal entry dialog (journal_entry_dialog.py) and   *)
(* the journal entries list (journal_entries_widget.py) as state machines. *)
(*                                                                         *)
(* Amounts are integers in cents: every amount the dialog handles is the   *)
(* value of a QDoubleSpinBox with two decimals, or a Decimal quantized to  *)
(* 0.01.  One action is one handler run on the UI thread, or one step of a *)
(* background coroutine between two awaits.  Queued invocations            *)
(* (Qt.QueuedConnection) travel through uiQueue and run in posting order.  *)
(***************************************************************************)
EXTENDS Integers, Sequences, FiniteSets, TLC

VARIABLES
    \* ---- JournalEntryDialog ----
    dlgState,        \* "none" | "open" | "accepted" | "rejected"
    journal_entry_id,\* 0 is None
    view_only_mode,
    connected,       \* journal_entry_saved is connected to the list's reload
    loaded_orm,      \* loaded_journal_entry_orm, NoEntry is None
    existing_dict,   \* existing_journal_entry_data_dict, NoEntry is None
    accounts_cache,  \* _accounts_cache, a sequence of account ids
    tax_codes_cache, \* _tax_codes_cache, a sequence of tax code records
    lines,           \* the rows of lines_table
    totals,          \* debits_label, credits_label, balance_label
    buttons,         \* save buttons visible, add/remove line buttons enabled
    comboTask,       \* _load_initial_combo_data: its position
    entryTask,       \* _load_existing_journal_entry: its position
    saveTasks,       \* the _perform_save coroutines in flight
    emitted,         \* the ids journal_entry_saved was emitted with, in order
    nEdits,          \* user inputs made on the dialog so far
    nSaves,          \* of these, clicks on Save Draft / Save & Post
    \* ---- shared ----
    hasManager,      \* app_core.journal_entry_manager is set
    reversals,       \* what the manager's successful reversals did, in order
    uiQueue,         \* queued invocations waiting for the UI thread
    lastMsg,         \* the message box shown last
    calls,           \* the calls made to the journal entry manager, in order
    widgetOps,       \* <<widget operation, thread that performed it>>
    errLog,          \* what app_core.logger recorded at error level or above
    \* ---- JournalEntriesWidget ----
    current_user,    \* app_core.current_user is set
    status_filter,   \* status_filter_combo.currentText()
    table,           \* table_model: rows of [id, status]
    selection,       \* selected row numbers
    actions,         \* enabled state of the toolbar actions
    loadTasks,       \* the _load_entries coroutines in flight
    postTasks,       \* the _perform_post_entries coroutines in flight
    reverseTasks,    \* the _perform_reverse_entry coroutines in flight
    nOps,            \* user inputs made on the list so far
    \* ---- DashboardWidget ----
    hasDashboardManager, \* app_core.dashboard_manager is set
    kpi_labels,      \* the text of the eleven KPI value labels
    period_label,    \* what follows "Period: "
    base_currency_label, \* what follows "Currency: "
    charts,          \* the bar values of the AR and AP aging charts
    refresh_enabled, \* refresh_button.isEnabled()
    load_request_count,
    kpiTimer,        \* the constructor's singleShot is still to fire
    kpiTasks,        \* the _fetch_kpis_data coroutines in flight
    \* ---- AccountTypeService ----
    store,           \* the account_types table: id -> row, or NoEntry
    next_id,         \* the id the table gives the next inserted row
    session_calls,   \* the calls the last operation made on its session
    svc_call,        \* the last operation called on the service
    svc_result,      \* what it returned
    svc_ops          \* operations called so far

dlgVars == <<dlgState, journal_entry_id, view_only_mode, connected, loaded_orm,
             existing_dict, accounts_cache, tax_codes_cache, lines, totals,
             buttons, comboTask, entryTask, saveTasks, emitted, nEdits, nSaves>>
\* what the handlers of the journal screens leave as it is
dashVars == <<hasDashboardManager, kpi_labels, period_label,
              base_currency_label, charts, refresh_enabled,
              load_request_count, kpiTimer, kpiTasks>>
\* the screens no journal handler touches
svcVars == <<store, next_id, session_calls, svc_call, svc_result, svc_ops>>
restVars == <<dashVars, svcVars>>
coreVars == <<hasManager, reversals, restVars>>
sharedVars == <<coreVars, uiQueue, lastMsg, calls, widgetOps, errLog>>
\* what only the user's logging in and filter choice decide
userVars == <<current_user, status_filter>>
listVars == <<userVars, table, selection, actions, loadTasks, postTasks,
              reverseTasks, nOps>>
vars == <<dlgVars, sharedVars, listVars>>

----------------------------------------------------------------------------
(* Bounds of the model. *)

MaxLines == 2        \* rows the user may have in lines_table by adding
MaxEdits == 3        \* user inputs on one dialog
MaxSaves == 2        \* of these, clicks on Save Draft / Save & Post
MaxOps == 2          \* user inputs on the list
MaxRequests == 3     \* KPI loads requested on the dashboard
MaxTypeId == 3       \* ids the account_types table hands out
MaxSvcOps == 4       \* operations called on the AccountType service

----------------------------------------------------------------------------
(* Program constants. *)

PercentDivisor == 100       \* tc_obj.rate / Decimal(100)
BalanceOkThousandths == 5   \* Decimal("0.005")
SaveToleranceCents == 1     \* Decimal("0.01")

----------------------------------------------------------------------------
(* Values the environment supplies. *)

NoEntry == [none |-> TRUE]

\* Amounts (cents) a user types in a spin box: 0.00, 90.00, 99.99, 100.00.
Amounts == {0, 9000, 9999, 10000}

\* chart_of_accounts_manager.get_accounts_for_selection(active_only=True)
AccountsResult == <<1, 2>>

\* tax_code_service.get_all(): code, tax_type, rate (percent; -1 is None)
NoRate == 0 - 1
TaxCodesResult ==
    << [code |-> "SR",  tax_type |-> "GST", rate |-> 7],
       [code |-> "WHT", tax_type |-> "Withholding Tax", rate |-> 15],
       [code |-> "NR",  tax_type |-> "GST", rate |-> NoRate] >>

Line(a, d, c, t, ta) ==
    [account_id |-> a, debit_amount |-> d, credit_amount |-> c,
     tax_code |-> t, tax_amount |-> ta]

\* What journal_entry_manager.get_journal_entry_for_dialog can return for
\* the entry id the dialog was opened on.  Lines obey the data model: at
\* most one of debit/credit is non-zero.  Account 3 is inactive (not among
\* the accounts for selection); tax code "OLD" is no longer in the table.
Entries ==
    { [is_posted |-> FALSE, source_type |-> "SalesInvoice", source_id |-> 42,
       lines |-> << Line(1, 100000, 0, "SR", 7000),
                    Line(3, 0, 100000, "OLD", 0) >>],
      [is_posted |-> TRUE, source_type |-> "", source_id |-> 0,
       lines |-> << Line(1, 10000, 0, "", 0),
                    Line(2, 0, 10000, "", 0) >>],
      [is_posted |-> FALSE, source_type |-> "", source_id |-> 0,
       lines |-> << >>] }

EntryId == 7   \* the id an edit/view dialog is opened on
NewId == 8     \* the id the manager gives a created entry


----------------------------------------------------------------------------
(* The grid: lines_table with the three total labels.  A row is           *)
(*   acc, accItems   account combo: currentData (0 is None) and item data *)
(*   debit, credit   the two spin boxes, in cents                         *)
(*   tax, taxItems   tax combo: currentData ("" is the "None" item)       *)
(*   taxamt          the text of the Tax Amt item, in cents               *)
(*   cap             the row_position the row's lambdas captured          *)
(*   delVisible      the row's delete button is visible                   *)
(* Rows are numbered from 1 (the code counts from 0).  The free-text      *)
(* description column takes no part in any computation and is left out.   *)

Abs(x) == IF x < 0 THEN 0 - x ELSE x

RECURSIVE SumDebits(_)
SumDebits(ls) ==
    IF ls = << >> THEN 0 ELSE Head(ls).debit + SumDebits(Tail(ls))

RECURSIVE SumCredits(_)
SumCredits(ls) ==
    IF ls = << >> THEN 0 ELSE Head(ls).credit + SumCredits(Tail(ls))

\* QDoubleSpinBox.setValue: the value is bound to the range
\* 0..999999999999.99; no amount of the model comes near the upper end.
SpinSetValue(v) == IF v < 0 THEN 0 ELSE v

\* Decimal.quantize(Decimal("0.01")) of n/PercentDivisor cents, under the
\* default context's ROUND_HALF_EVEN.
Quantize(n) ==
    LET q == n \div PercentDivisor
        r == n % PercentDivisor
    IN  IF 2 * r > PercentDivisor THEN q + 1
        ELSE IF 2 * r < PercentDivisor THEN q
        ELSE IF q % 2 = 0 THEN q ELSE q + 1

calculate_totals(g) ==
    LET td == SumDebits(g.lines)
        tc == SumCredits(g.lines)
    IN  [g EXCEPT !.totals =
            [debits |-> td, credits |-> tc,
             ok |-> Abs(td - tc) * 10 < BalanceOkThousandths,
             diff |-> IF Abs(td - tc) * 10 < BalanceOkThousandths
                      THEN 0 ELSE td - tc]]

\* next((tc for tc in self._tax_codes_cache if tc.code == tax_code_str), None)
FindTaxCode(tcache, code) ==
    LET hits == {i \in 1..Len(tcache) : tcache[i].code = code}
    IN  IF hits = {} THEN NoEntry
        ELSE tcache[CHOOSE i \in hits : \A j \in hits : i <= j]

calculated_tax_AnyType(row, tcache) ==
    LET base == IF row.debit > 0 THEN row.debit ELSE row.credit
        tc_obj == FindTaxCode(tcache, row.tax)
    IN  IF row.tax # "" /\ base # 0 /\ tc_obj # NoEntry
        THEN IF tc_obj.rate # NoRate THEN Quantize(base * tc_obj.rate) ELSE 0
        ELSE 0

\* Lines 401-409: the tax of one row.
calculated_tax(row, tcache) ==
    LET base == IF row.debit > 0 THEN row.debit ELSE row.credit
        tc_obj == FindTaxCode(tcache, row.tax)
    IN  IF row.tax # "" /\ base # 0 /\ tc_obj # NoEntry
        THEN IF tc_obj.tax_type = "GST" /\ tc_obj.rate # NoRate
             THEN Quantize(base * tc_obj.rate)
             ELSE 0
        ELSE 0

\* A row number that has no row: cellWidget gives None and the method
\* returns early; the finally clause still recomputes the totals.
recalculate_tax_for_line(g, row, tcache) ==
    calculate_totals(
        IF row \in 1..Len(g.lines)
        THEN [g EXCEPT !.lines[row].taxamt = calculated_tax(g.lines[row], tcache)]
        ELSE g)

chain_recalculate_tax_and_totals(g, row, tcache) ==
    recalculate_tax_for_line(g, row, tcache)

SeqToSet(s) == {s[i] : i \in 1..Len(s)}

\* _populate_combos_for_row.  Both combos are cleared and refilled from the
\* caches.  With no account to select the account combo keeps the index 0
\* that QComboBox takes when its first item is inserted; an account that is
\* not in the cache is appended as an extra item and selected (whichever of
\* the three labels it gets, its data is the id).  Refilling the tax combo
\* emits currentIndexChanged (at the latest when "None" is inserted), which
\* runs the recalculation connected in _add_new_line for the captured row.
populate_combos_for_row(g, row, ld, acache, tcache) ==
    LET cur_acc == IF ld = NoEntry THEN 0 ELSE ld.account_id
        cur_tax == IF ld = NoEntry THEN "" ELSE ld.tax_code
        accs == SeqToSet(acache)
        codes == {tcache[i].code : i \in 1..Len(tcache)}
        g1 == [g EXCEPT
                !.lines[row].accItems = IF cur_acc # 0 THEN accs \cup {cur_acc} ELSE accs,
                !.lines[row].acc = IF cur_acc # 0 THEN cur_acc
                                   ELSE IF acache # << >> THEN acache[1] ELSE 0,
                !.lines[row].taxItems = IF cur_tax # "" THEN codes \cup {cur_tax} ELSE codes,
                !.lines[row].tax = cur_tax]
    IN  chain_recalculate_tax_and_totals(g1, g1.lines[row].cap, tcache)

\* _add_new_line.  The spin boxes are set before their signals are
\* connected; the lambdas capture row_position.
add_new_line(g, ld, acache, tcache) ==
    LET row_position == Len(g.lines) + 1
        new == [acc |-> 0, accItems |-> {},
                debit |-> IF ld = NoEntry THEN 0 ELSE SpinSetValue(ld.debit_amount),
                credit |-> IF ld = NoEntry THEN 0 ELSE SpinSetValue(ld.credit_amount),
                tax |-> "", taxItems |-> {},
                taxamt |-> IF ld = NoEntry THEN 0 ELSE ld.tax_amount,
                cap |-> row_position, delVisible |-> TRUE]
        g1 == [g EXCEPT !.lines = Append(g.lines, new)]
        g2 == populate_combos_for_row(g1, row_position, ld, acache, tcache)
        g3 == recalculate_tax_for_line(g2, row_position, tcache)
    IN  calculate_totals(g3)

RemoveAt(s, i) ==
    [j \in 1..(Len(s) - 1) |-> IF j < i THEN s[j] ELSE s[j + 1]]

\* QTableWidget.removeRow: a row number that has no row removes nothing.
removeRow(ls, row) == IF row \in 1..Len(ls) THEN RemoveAt(ls, row) ELSE ls

IsReadOnly(view_only, orm) ==
    view_only \/ (orm # NoEntry /\ orm.is_posted)

remove_specific_line_NoTotals(g, row_to_remove, view_only, orm) ==
    IF IsReadOnly(view_only, orm) THEN g
    ELSE IF Len(g.lines) > 0
         THEN [g EXCEPT !.lines = removeRow(g.lines, row_to_remove)]
         ELSE g

remove_specific_line(g, row_to_remove, view_only, orm) ==
    IF IsReadOnly(view_only, orm) THEN g
    ELSE IF Len(g.lines) > 0
         THEN calculate_totals([g EXCEPT !.lines = removeRow(g.lines, row_to_remove)])
         ELSE g

\* The two slots connected to a spin box's valueChanged, in connection
\* order: the lambda that zeroes the other spin box when val > 0.001 (whose
\* own valueChanged then runs the other box's slots), then the recalculation
\* for the captured row.  setValue of the value already shown emits nothing.
debit_valueChanged_KeepCredit(g, row, val, tcache) ==
    chain_recalculate_tax_and_totals(
        [g EXCEPT !.lines[row].debit = val], g.lines[row].cap, tcache)

debit_valueChanged(g, row, val, tcache) ==
    LET g1 == [g EXCEPT !.lines[row].debit = val]
        g2 == IF val > 0 /\ g1.lines[row].credit # 0
              THEN chain_recalculate_tax_and_totals(
                       [g1 EXCEPT !.lines[row].credit = 0],
                       g1.lines[row].cap, tcache)
              ELSE g1
    IN  chain_recalculate_tax_and_totals(g2, g2.lines[row].cap, tcache)

credit_valueChanged(g, row, val, tcache) ==
    LET g1 == [g EXCEPT !.lines[row].credit = val]
        g2 == IF val > 0 /\ g1.lines[row].debit # 0
              THEN chain_recalculate_tax_and_totals(
                       [g1 EXCEPT !.lines[row].debit = 0],
                       g1.lines[row].cap, tcache)
              ELSE g1
    IN  chain_recalculate_tax_and_totals(g2, g2.lines[row].cap, tcache)

\* The tax combo's currentIndexChanged.
tax_currentIndexChanged(g, row, code, tcache) ==
    chain_recalculate_tax_and_totals(
        [g EXCEPT !.lines[row].tax = code], g.lines[row].cap, tcache)

Grid == [lines |-> lines, totals |-> totals]

EmptyTotals == [debits |-> 0, credits |-> 0, ok |-> TRUE, diff |-> 0]


----------------------------------------------------------------------------
(* Messages, queued invocations, manager calls. *)

Msg(title, d, c) == [title |-> title, d |-> d, c |-> c]
NoMsg == Msg("", 0, 0)

Ev(ev, title, payload) == [ev |-> ev, title |-> title, payload |-> payload]

\* QMetaObject.invokeMethod(QMessageBox.staticMetaObject, ..., QueuedConnection)
QueuedMsg(title) == Ev("msg", title, Msg(title, 0, 0))

Call(op, id, data) == [op |-> op, id |-> id, data |-> data]

\* json.dumps of the entry (_serialize_je_for_ui) and json.loads of the
\* string the slot receives.  Amounts travel as decimal strings with two
\* places and come back as the same number of cents; is_posted, source and
\* the line fields are carried over one to one.  A string json.dumps wrote
\* always parses.
serialize_je_for_ui(je) ==
    [wellFormed |-> TRUE,
     is_posted |-> je.is_posted, source_type |-> je.source_type,
     source_id |-> je.source_id, lines |-> je.lines]

json_loads(str) ==
    IF str.wellFormed
    THEN [is_posted |-> str.is_posted, source_type |-> str.source_type,
          source_id |-> str.source_id, lines |-> str.lines]
    ELSE NoEntry

----------------------------------------------------------------------------
(* _collect_data: the rows in order, then the checks on the whole entry.  *)
(* JournalEntryLineData and JournalEntryData are pydantic models defined  *)
(* outside these sources; _collect_data catches what their constructors   *)
(* raise.  Their validation is taken from the data model's stated         *)
(* invariants: a line has at most one of debit/credit non-zero; an entry  *)
(* balances within 0.01 and has a line with a non-zero amount.            *)

LineDto(row) ==
    [account_id |-> row.acc, debit_amount |-> row.debit,
     credit_amount |-> row.credit, tax_code |-> row.tax,
     tax_amount |-> row.taxamt]

JournalEntryLineData_valid(dto) ==
    ~(dto.debit_amount # 0 /\ dto.credit_amount # 0)

RECURSIVE CollectLines(_)
CollectLines(ls) ==
    IF ls = << >> THEN << >>
    ELSE IF Head(ls).acc = 0 THEN CollectLines(Tail(ls))
         ELSE <<LineDto(Head(ls))>> \o CollectLines(Tail(ls))

RECURSIVE DtoDebits(_)
DtoDebits(ds) ==
    IF ds = << >> THEN 0 ELSE Head(ds).debit_amount + DtoDebits(Tail(ds))

RECURSIVE DtoCredits(_)
DtoCredits(ds) ==
    IF ds = << >> THEN 0 ELSE Head(ds).credit_amount + DtoCredits(Tail(ds))

JournalEntryData_valid(lines_data) ==
    /\ Abs(DtoDebits(lines_data) - DtoCredits(lines_data)) <= SaveToleranceCents
    /\ \E k \in 1..Len(lines_data) :
           lines_data[k].debit_amount # 0 \/ lines_data[k].credit_amount # 0

Rejected(msg) == [ok |-> FALSE, msg |-> msg, data |-> NoEntry]

\* The row whose processing ends the loop at lines 424-454 (0: none does):
\* the first with amounts and no account, or with a DTO that is refused.
FirstBadRow(ls) ==
    LET bad == {k \in 1..Len(ls) :
                   \/ ls[k].acc = 0 /\ (ls[k].debit # 0 \/ ls[k].credit # 0)
                   \/ ls[k].acc # 0 /\ ~JournalEntryLineData_valid(LineDto(ls[k]))}
    IN  IF bad = {} THEN 0 ELSE CHOOSE k \in bad : \A j \in bad : k <= j

\* Lines 461-476: the entry handed to _perform_save.
EntryData(lines_data, je_id, orm) ==
    [lines |-> lines_data,
     source_type |-> IF je_id # 0 /\ orm # NoEntry THEN orm.source_type ELSE "",
     source_id |-> IF je_id # 0 /\ orm # NoEntry THEN orm.source_id ELSE 0]

collect_data_NoBalanceCheck(ls, je_id, orm) ==
    LET lines_data == CollectLines(ls)
        bad == FirstBadRow(ls)
    IN  IF bad # 0
        THEN Rejected(Msg(IF ls[bad].acc = 0 THEN "Validation Error"
                          ELSE "Input Error", 0, 0))
        ELSE IF lines_data = << >>
        THEN Rejected(Msg("Input Error", 0, 0))
        ELSE IF ~JournalEntryData_valid(lines_data)
        THEN Rejected(Msg("Validation Error", 0, 0))
        ELSE [ok |-> TRUE, msg |-> NoMsg,
              data |-> EntryData(lines_data, je_id, orm)]

collect_data_SkipNoAccount(ls, je_id, orm) ==
    LET lines_data == CollectLines(ls)
        total_debits == DtoDebits(lines_data)
        total_credits == DtoCredits(lines_data)
    IN  IF Abs(total_debits - total_credits) > SaveToleranceCents
        THEN Rejected(Msg("Balance Error", total_debits, total_credits))
        ELSE IF ~JournalEntryData_valid(lines_data)
        THEN Rejected(Msg("Validation Error", 0, 0))
        ELSE [ok |-> TRUE, msg |-> NoMsg,
              data |-> EntryData(lines_data, je_id, orm)]

collect_data_Unvalidated(ls, je_id, orm) ==
    LET lines_data == CollectLines(ls)
        total_debits == DtoDebits(lines_data)
        total_credits == DtoCredits(lines_data)
        bad == FirstBadRow(ls)
    IN  IF bad # 0
        THEN Rejected(Msg(IF ls[bad].acc = 0 THEN "Validation Error"
                          ELSE "Input Error", 0, 0))
        ELSE IF lines_data = << >>
        THEN Rejected(Msg("Input Error", 0, 0))
        ELSE IF Abs(total_debits - total_credits) > SaveToleranceCents
        THEN Rejected(Msg("Balance Error", total_debits, total_credits))
        ELSE [ok |-> TRUE, msg |-> NoMsg,
              data |-> EntryData(lines_data, je_id, orm)]

collect_data(ls, je_id, orm) ==
    LET lines_data == CollectLines(ls)
        total_debits == DtoDebits(lines_data)
        total_credits == DtoCredits(lines_data)
        bad == FirstBadRow(ls)
    IN  IF bad # 0
        THEN Rejected(Msg(IF ls[bad].acc = 0 THEN "Validation Error"
                          ELSE "Input Error", 0, 0))
        ELSE IF lines_data = << >>
        THEN Rejected(Msg("Input Error", 0, 0))
        ELSE IF Abs(total_debits - total_credits) > SaveToleranceCents
        THEN Rejected(Msg("Balance Error", total_debits, total_credits))
        ELSE IF ~JournalEntryData_valid(lines_data)
        THEN Rejected(Msg("Validation Error", 0, 0))
        ELSE [ok |-> TRUE, msg |-> NoMsg,
              data |-> EntryData(lines_data, je_id, orm)]


----------------------------------------------------------------------------
(* JournalEntryDialog: construction. *)

BlankGrid == [lines |-> << >>, totals |-> EmptyTotals]

\* __init__: a new entry starts with two lines, added while both caches
\* are still empty; an existing entry starts with none until it is loaded.
InitialGrid(je_id, view_only) ==
    IF je_id = 0 /\ ~view_only
    THEN add_new_line(add_new_line(BlankGrid, NoEntry, << >>, << >>),
                      NoEntry, << >>, << >>)
    ELSE BlankGrid

\* The dialog as its constructor leaves it.  is_connected: the list
\* connects journal_entry_saved after constructing a new/edit dialog.
Construct(je_id, view_only, is_connected) ==
    /\ dlgState' = "open"
    /\ journal_entry_id' = je_id
    /\ view_only_mode' = view_only
    /\ connected' = is_connected
    /\ loaded_orm' = NoEntry
    /\ existing_dict' = NoEntry
    /\ accounts_cache' = << >>
    /\ tax_codes_cache' = << >>
    /\ lines' = InitialGrid(je_id, view_only).lines
    /\ totals' = InitialGrid(je_id, view_only).totals
    /\ buttons' = [saveVisible |-> TRUE, lineButtonsEnabled |-> TRUE]
    /\ comboTask' = "pending"
    /\ entryTask' = IF je_id # 0 THEN "pending" ELSE "done"
    /\ saveTasks' = << >>
    /\ emitted' = << >>

----------------------------------------------------------------------------
(* JournalEntryDialog: what the user does.  Every input is a handler run  *)
(* on the UI thread while the dialog is open.                             *)

CanInput == dlgState = "open" /\ nEdits < MaxEdits

SetGrid(g) == lines' = g.lines /\ totals' = g.totals

DlgFrame ==
    UNCHANGED <<journal_entry_id, view_only_mode, connected, loaded_orm,
                existing_dict, accounts_cache, tax_codes_cache, buttons,
                comboTask, entryTask, emitted, nSaves>>

\* add_line_button.clicked -> _add_new_line (the checked flag it passes is
\* falsy, as no line data)
\* (bounded by MaxLines, so not counted in nEdits)
UserAddLine ==
    /\ dlgState = "open" /\ buttons.lineButtonsEnabled
    /\ Len(lines) < MaxLines
    /\ SetGrid(add_new_line(Grid, NoEntry, accounts_cache, tax_codes_cache))
    /\ DlgFrame
    /\ UNCHANGED <<dlgState, saveTasks, nEdits, sharedVars, listVars>>

\* remove_line_button.clicked -> _remove_selected_line, on the current row
UserRemoveSelected(current_row) ==
    /\ CanInput /\ buttons.lineButtonsEnabled
    /\ current_row \in 1..Len(lines)
    /\ SetGrid(remove_specific_line(Grid, current_row, view_only_mode, loaded_orm))
    /\ nEdits' = nEdits + 1
    /\ DlgFrame
    /\ UNCHANGED <<dlgState, saveTasks, sharedVars, listVars>>

\* a row's delete button: lambda _, r=row_position: _remove_specific_line(r)
UserClickDelete(row) ==
    /\ CanInput
    /\ row \in 1..Len(lines) /\ lines[row].delVisible
    /\ SetGrid(remove_specific_line(Grid, lines[row].cap, view_only_mode, loaded_orm))
    /\ nEdits' = nEdits + 1
    /\ DlgFrame
    /\ UNCHANGED <<dlgState, saveTasks, sharedVars, listVars>>

UserSetDebit(row, val) ==
    /\ CanInput
    /\ row \in 1..Len(lines) /\ val # lines[row].debit
    /\ SetGrid(debit_valueChanged(Grid, row, val, tax_codes_cache))
    /\ nEdits' = nEdits + 1
    /\ DlgFrame
    /\ UNCHANGED <<dlgState, saveTasks, sharedVars, listVars>>

UserSetCredit(row, val) ==
    /\ CanInput
    /\ row \in 1..Len(lines) /\ val # lines[row].credit
    /\ SetGrid(credit_valueChanged(Grid, row, val, tax_codes_cache))
    /\ nEdits' = nEdits + 1
    /\ DlgFrame
    /\ UNCHANGED <<dlgState, saveTasks, sharedVars, listVars>>

UserSelectTax(row, code) ==
    /\ CanInput
    /\ row \in 1..Len(lines)
    /\ code \in lines[row].taxItems \cup {""} /\ code # lines[row].tax
    /\ SetGrid(tax_currentIndexChanged(Grid, row, code, tax_codes_cache))
    /\ nEdits' = nEdits + 1
    /\ DlgFrame
    /\ UNCHANGED <<dlgState, saveTasks, sharedVars, listVars>>

\* the account combo has no slot connected
UserSelectAccount(row, acc) ==
    /\ CanInput
    /\ row \in 1..Len(lines)
    /\ acc \in lines[row].accItems /\ acc # lines[row].acc
    /\ lines' = [lines EXCEPT ![row].acc = acc]
    /\ nEdits' = nEdits + 1
    /\ DlgFrame
    /\ UNCHANGED <<dlgState, totals, saveTasks, sharedVars, listVars>>

\* on_save_draft (post = FALSE) and on_save_and_post (post = TRUE)
on_save(post) ==
    LET entry == collect_data(lines, journal_entry_id, loaded_orm)
    IN  /\ CanInput /\ buttons.saveVisible /\ nSaves < MaxSaves
        /\ IF IsReadOnly(view_only_mode, loaded_orm)
           THEN /\ lastMsg' = Msg("Info", 0, 0)
                /\ UNCHANGED saveTasks
           ELSE IF entry.ok
           THEN /\ saveTasks' = Append(saveTasks,
                        [data |-> entry.data, post |-> post,
                         pc |-> "start", saved |-> 0])
                /\ UNCHANGED lastMsg
           ELSE /\ lastMsg' = entry.msg
                /\ UNCHANGED saveTasks
        /\ widgetOps' = IF IsReadOnly(view_only_mode, loaded_orm) \/ ~entry.ok
                        THEN widgetOps \cup {<<"message", "ui">>}
                        ELSE widgetOps
        /\ nEdits' = nEdits + 1
        /\ nSaves' = nSaves + 1
        /\ UNCHANGED <<dlgState, journal_entry_id, view_only_mode, connected,
                       loaded_orm, existing_dict, accounts_cache,
                       tax_codes_cache, buttons, comboTask, entryTask, emitted,
                       lines, totals, coreVars, uiQueue, calls, errLog,
                       listVars>>

on_save_draft == on_save(FALSE)

on_save_and_post == on_save(TRUE)

\* the Cancel / Close button -> reject
UserCancel ==
    /\ dlgState = "open"
    /\ dlgState' = "rejected"
    /\ widgetOps' = widgetOps \cup {<<"reject", "ui">>}
    /\ DlgFrame
    /\ UNCHANGED <<lines, totals, saveTasks, nEdits, coreVars, uiQueue,
                   lastMsg, calls, errLog, listVars>>


----------------------------------------------------------------------------
(* JournalEntryDialog: the background coroutines.  A coroutine keeps      *)
(* running after the dialog has closed.                                   *)

\* _load_initial_combo_data up to the second await: the accounts arrive
\* and are stored by the background thread, or the call raises.
ComboLoadAccounts(res) ==
    /\ comboTask = "pending"
    /\ IF res = "ok"
       THEN /\ accounts_cache' = AccountsResult
            /\ comboTask' = "gotAccounts"
            /\ UNCHANGED <<uiQueue, errLog>>
       ELSE /\ comboTask' = "done"
            /\ errLog' = errLog \cup {"combo data"}
            /\ uiQueue' = Append(uiQueue, QueuedMsg("Data Load Error"))
            /\ UNCHANGED accounts_cache
    /\ UNCHANGED <<dlgState, journal_entry_id, view_only_mode, connected,
                   loaded_orm, existing_dict, tax_codes_cache, lines, totals,
                   buttons, entryTask, saveTasks, emitted, nEdits, nSaves,
                   coreVars, lastMsg, calls, widgetOps, listVars>>

\* ... and from there to its end: the tax codes arrive and the slot is
\* queued, or the call raises.
ComboLoadTaxCodes(res) ==
    /\ comboTask = "gotAccounts"
    /\ comboTask' = "done"
    /\ IF res = "ok"
       THEN /\ tax_codes_cache' = TaxCodesResult
            /\ uiQueue' = Append(uiQueue, Ev("update_combos", "", NoEntry))
            /\ UNCHANGED errLog
       ELSE /\ errLog' = errLog \cup {"combo data"}
            /\ uiQueue' = Append(uiQueue, QueuedMsg("Data Load Error"))
            /\ UNCHANGED tax_codes_cache
    /\ UNCHANGED <<dlgState, journal_entry_id, view_only_mode, connected,
                   loaded_orm, existing_dict, accounts_cache, lines, totals,
                   buttons, entryTask, saveTasks, emitted, nEdits, nSaves,
                   coreVars, lastMsg, calls, widgetOps, listVars>>

\* _load_existing_journal_entry.  Nothing happens before its await, so the
\* coroutine is one step: the manager's answer arrives.  When the entry is
\* not found the coroutine calls self.reject() itself, on its own thread.
load_existing_journal_entry(res) ==
    /\ entryTask = "pending"
    /\ entryTask' = "done"
    /\ IF journal_entry_id = 0 \/ ~hasManager
       THEN UNCHANGED <<loaded_orm, uiQueue, dlgState, widgetOps>>
       ELSE IF res # NoEntry
       THEN /\ loaded_orm' = res
            /\ uiQueue' = Append(uiQueue,
                    Ev("populate", "", serialize_je_for_ui(res)))
            /\ UNCHANGED <<dlgState, widgetOps>>
       ELSE /\ uiQueue' = Append(uiQueue, QueuedMsg("Error"))
            /\ dlgState' = IF dlgState = "open" THEN "rejected" ELSE dlgState
            /\ widgetOps' = widgetOps \cup {<<"reject", "background">>}
            /\ UNCHANGED loaded_orm
    /\ UNCHANGED <<journal_entry_id, view_only_mode, connected, existing_dict,
                   accounts_cache, tax_codes_cache, lines, totals, buttons,
                   comboTask, saveTasks, emitted, nEdits, nSaves, coreVars, lastMsg,
                   calls, errLog, listVars>>

\* get_journal_entry_for_dialog raises.  The coroutine has no except
\* clause: it ends at the await, before loaded_journal_entry_orm is
\* assigned, and the exception stays in its future.
load_existing_journal_entry_raises ==
    /\ entryTask = "pending" /\ journal_entry_id # 0 /\ hasManager
    /\ entryTask' = "done"
    /\ UNCHANGED <<dlgState, journal_entry_id, view_only_mode, connected,
                   loaded_orm, existing_dict, accounts_cache, tax_codes_cache,
                   lines, totals, buttons, comboTask, saveTasks, emitted,
                   nEdits, nSaves, sharedVars, listVars>>

\* journal_entry_saved.emit: the lambda the list connected runs at once and
\* schedules _load_entries.
EmitSaved(id) ==
    /\ emitted' = Append(emitted, id)
    /\ loadTasks' = IF connected THEN Append(loadTasks, [pc |-> "start"])
                    ELSE loadTasks

\* _perform_save up to its first await: update or create is called.
perform_save_start(i) ==
    /\ i \in 1..Len(saveTasks) /\ saveTasks[i].pc = "start"
    /\ IF ~hasManager
       THEN /\ uiQueue' = Append(uiQueue, QueuedMsg("Error"))
            /\ saveTasks' = RemoveAt(saveTasks, i)
            /\ UNCHANGED calls
       ELSE /\ calls' = Append(calls,
                    IF journal_entry_id # 0 /\ loaded_orm # NoEntry
                    THEN Call("update", journal_entry_id, saveTasks[i].data)
                    ELSE Call("create", 0, saveTasks[i].data))
            /\ saveTasks' = [saveTasks EXCEPT ![i].pc = "awaitSave",
                    ![i].saved = IF journal_entry_id # 0 /\ loaded_orm # NoEntry
                                 THEN journal_entry_id ELSE NewId]
            /\ UNCHANGED uiQueue
    /\ UNCHANGED <<dlgState, journal_entry_id, view_only_mode, connected,
                   loaded_orm, existing_dict, accounts_cache, tax_codes_cache,
                   lines, totals, buttons, comboTask, entryTask, emitted,
                   nEdits, nSaves, coreVars, lastMsg, widgetOps, errLog, listVars>>

\* The errors of a failure Result: a non-empty list of strings.
ResultErrors == <<"Entry date is in a closed period", "E2">>

\* "Failed to save journal entry:" and the errors joined
SaveErrorMsg(errors) ==
    Ev("msg", "Save Error", [title |-> "Save Error", errors |-> errors])

perform_save_saved_EmitOnFailure(i, is_success) ==
    /\ i \in 1..Len(saveTasks) /\ saveTasks[i].pc = "awaitSave"
    /\ IF is_success /\ saveTasks[i].post
       THEN /\ calls' = Append(calls, Call("post", saveTasks[i].saved, NoEntry))
            /\ saveTasks' = [saveTasks EXCEPT ![i].pc = "awaitPost"]
            /\ UNCHANGED <<uiQueue, emitted, loadTasks>>
       ELSE IF is_success
       THEN /\ uiQueue' = uiQueue \o <<QueuedMsg("Success"),
                                       Ev("accept", "", NoEntry)>>
            /\ EmitSaved(saveTasks[i].saved)
            /\ saveTasks' = RemoveAt(saveTasks, i)
            /\ UNCHANGED calls
       ELSE /\ uiQueue' = Append(uiQueue, SaveErrorMsg(ResultErrors))
            /\ EmitSaved(saveTasks[i].saved)
            /\ saveTasks' = RemoveAt(saveTasks, i)
            /\ UNCHANGED calls
    /\ UNCHANGED <<dlgState, journal_entry_id, view_only_mode, connected,
                   loaded_orm, existing_dict, accounts_cache, tax_codes_cache,
                   lines, totals, buttons, comboTask, entryTask, nEdits,
                   nSaves, coreVars, lastMsg, widgetOps, errLog, userVars,
                   table, selection, actions, postTasks, reverseTasks, nOps>>

\* ... the save's Result arrives: on success either the post is called or
\* the coroutine finishes; on failure it reports and finishes.
perform_save_saved(i, is_success) ==
    /\ i \in 1..Len(saveTasks) /\ saveTasks[i].pc = "awaitSave"
    /\ IF is_success /\ saveTasks[i].post
       THEN /\ calls' = Append(calls, Call("post", saveTasks[i].saved, NoEntry))
            /\ saveTasks' = [saveTasks EXCEPT ![i].pc = "awaitPost"]
            /\ UNCHANGED <<uiQueue, emitted, loadTasks>>
       ELSE IF is_success
       THEN /\ uiQueue' = uiQueue \o <<QueuedMsg("Success"),
                                       Ev("accept", "", NoEntry)>>
            /\ EmitSaved(saveTasks[i].saved)
            /\ saveTasks' = RemoveAt(saveTasks, i)
            /\ UNCHANGED calls
       ELSE /\ uiQueue' = Append(uiQueue, SaveErrorMsg(ResultErrors))
            /\ saveTasks' = RemoveAt(saveTasks, i)
            /\ UNCHANGED <<calls, emitted, loadTasks>>
    /\ UNCHANGED <<dlgState, journal_entry_id, view_only_mode, connected,
                   loaded_orm, existing_dict, accounts_cache, tax_codes_cache,
                   lines, totals, buttons, comboTask, entryTask, nEdits,
                   nSaves, coreVars, lastMsg, widgetOps, errLog, userVars,
                   table, selection, actions, postTasks, reverseTasks, nOps>>

\* ... the post's Result arrives.
perform_save_posted(i, is_success) ==
    /\ i \in 1..Len(saveTasks) /\ saveTasks[i].pc = "awaitPost"
    /\ uiQueue' = IF is_success
                  THEN uiQueue \o <<QueuedMsg("Success"),
                                    Ev("accept", "", NoEntry)>>
                  ELSE Append(uiQueue, QueuedMsg("Posting Error"))
    /\ EmitSaved(saveTasks[i].saved)
    /\ saveTasks' = RemoveAt(saveTasks, i)
    /\ UNCHANGED <<dlgState, journal_entry_id, view_only_mode, connected,
                   loaded_orm, existing_dict, accounts_cache, tax_codes_cache,
                   lines, totals, buttons, comboTask, entryTask, nEdits,
                   nSaves, coreVars, lastMsg, calls, widgetOps, errLog,
                   userVars, table, selection, actions, postTasks,
                   reverseTasks, nOps>>

\* ... the call _perform_save awaits (update, create or post) raises: no
\* except clause, the coroutine ends there.
perform_save_raises(i) ==
    /\ i \in 1..Len(saveTasks) /\ saveTasks[i].pc \in {"awaitSave", "awaitPost"}
    /\ saveTasks' = RemoveAt(saveTasks, i)
    /\ UNCHANGED <<dlgState, journal_entry_id, view_only_mode, connected,
                   loaded_orm, existing_dict, accounts_cache, tax_codes_cache,
                   lines, totals, buttons, comboTask, entryTask, emitted,
                   nEdits, nSaves, sharedVars, listVars>>

----------------------------------------------------------------------------
(* JournalEntryDialog: the slots the UI thread runs for queued            *)
(* invocations, the oldest first.                                         *)

RECURSIVE update_combos_from(_, _, _, _, _)
update_combos_from(g, r, dict, acache, tcache) ==
    IF r > Len(g.lines) THEN g
    ELSE LET line_data_to_use ==
                 IF dict # NoEntry /\ r <= Len(dict.lines)
                 THEN dict.lines[r] ELSE NoEntry
         IN  update_combos_from(
                 populate_combos_for_row(g, r, line_data_to_use, acache, tcache),
                 r + 1, dict, acache, tcache)

update_combos_in_all_lines_slot_NoLineData ==
    /\ uiQueue # << >> /\ Head(uiQueue).ev = "update_combos"
    /\ uiQueue' = Tail(uiQueue)
    /\ SetGrid(update_combos_from(Grid, 1, NoEntry, accounts_cache,
                                  tax_codes_cache))
    /\ widgetOps' = widgetOps \cup {<<"lines_table", "ui">>}
    /\ DlgFrame
    /\ UNCHANGED <<dlgState, saveTasks, nEdits, coreVars, lastMsg, calls,
                   errLog, listVars>>

update_combos_in_all_lines_slot ==
    /\ uiQueue # << >> /\ Head(uiQueue).ev = "update_combos"
    /\ uiQueue' = Tail(uiQueue)
    /\ SetGrid(update_combos_from(Grid, 1, existing_dict, accounts_cache,
                                  tax_codes_cache))
    /\ widgetOps' = widgetOps \cup {<<"lines_table", "ui">>}
    /\ DlgFrame
    /\ UNCHANGED <<dlgState, saveTasks, nEdits, coreVars, lastMsg, calls,
                   errLog, listVars>>

RECURSIVE add_lines_from(_, _, _, _)
add_lines_from(g, lds, acache, tcache) ==
    IF lds = << >> THEN g
    ELSE add_lines_from(add_new_line(g, Head(lds), acache, tcache),
                        Tail(lds), acache, tcache)

\* Lines 226-229 and 247-249: the rows are rebuilt from the data.
populate_lines(data, view_only, acache, tcache) ==
    LET g1 == add_lines_from(BlankGrid, data.lines, acache, tcache)
        g2 == IF data.lines = << >> /\ ~view_only
              THEN add_new_line(add_new_line(g1, NoEntry, acache, tcache),
                                NoEntry, acache, tcache)
              ELSE g1
        g3 == calculate_totals(g2)
    IN  IF view_only \/ data.is_posted
        THEN [g3 EXCEPT !.lines =
                 [r \in 1..Len(g3.lines) |->
                     [g3.lines[r] EXCEPT !.delVisible = FALSE]]]
        ELSE g3

populate_dialog_from_data_slot ==
    /\ uiQueue # << >> /\ Head(uiQueue).ev = "populate"
    /\ uiQueue' = Tail(uiQueue)
    /\ LET data == json_loads(Head(uiQueue).payload)
       IN  IF data = NoEntry
           THEN /\ lastMsg' = Msg("Error", 0, 0)
                /\ widgetOps' = widgetOps \cup {<<"message", "ui">>}
                /\ UNCHANGED <<existing_dict, lines, totals, buttons>>
           ELSE /\ existing_dict' = data
                /\ SetGrid(populate_lines(data, view_only_mode, accounts_cache,
                                          tax_codes_cache))
                /\ buttons' = IF view_only_mode \/ data.is_posted
                              THEN [saveVisible |-> FALSE,
                                    lineButtonsEnabled |-> FALSE]
                              ELSE buttons
                /\ widgetOps' = widgetOps \cup {<<"lines_table", "ui">>}
                /\ UNCHANGED lastMsg
    /\ UNCHANGED <<dlgState, journal_entry_id, view_only_mode, connected,
                   loaded_orm, accounts_cache, tax_codes_cache, comboTask,
                   entryTask, saveTasks, emitted, nEdits, nSaves, coreVars, calls,
                   errLog, listVars>>

\* a queued QMessageBox
message_box_slot ==
    /\ uiQueue # << >> /\ Head(uiQueue).ev = "msg"
    /\ uiQueue' = Tail(uiQueue)
    /\ lastMsg' = Head(uiQueue).payload
    /\ widgetOps' = widgetOps \cup {<<"message", "ui">>}
    /\ UNCHANGED <<dlgVars, coreVars, calls, errLog, listVars>>

\* the queued accept
accept_slot ==
    /\ uiQueue # << >> /\ Head(uiQueue).ev = "accept"
    /\ uiQueue' = Tail(uiQueue)
    /\ dlgState' = IF dlgState = "open" THEN "accepted" ELSE dlgState
    /\ widgetOps' = widgetOps \cup {<<"accept", "ui">>}
    /\ DlgFrame
    /\ UNCHANGED <<lines, totals, saveTasks, nEdits, coreVars, lastMsg,
                   calls, errLog, listVars>>

----------------------------------------------------------------------------
(* JournalEntriesWidget: the listing. *)

Row(id, status) == [id |-> id, status |-> status]

\* What get_journal_entries_for_listing can return as its value.
Listings ==
    { << >>,
      << Row(7, "Draft"), Row(9, "Posted") >>,
      << Row(7, "Posted"), Row(9, "Posted") >>,
      << Row(7, "Draft"), Row(9, "Draft") >> }

\* The outcomes of a listing call: a success Result with rows, a failure
\* Result, or an exception.
ListingResults ==
    {[kind |-> "ok", rows |-> l] : l \in Listings}
    \cup {[kind |-> k, rows |-> << >>] : k \in {"fail", "raise"}}

\* table_model.get_journal_entry_status_at_row; "" is None
status_at_row(tbl, row) ==
    IF row \in 1..Len(tbl) THEN tbl[row].status ELSE ""

\* table_model.get_journal_entry_id_at_row; 0 is None
id_at_row(tbl, row) ==
    IF row \in 1..Len(tbl) THEN tbl[row].id ELSE 0

update_action_states_IgnoreStatus(tbl, sel) ==
    [edit |-> Cardinality(sel) = 1,
     view |-> Cardinality(sel) = 1,
     post |-> sel # {},
     reverse |-> Cardinality(sel) = 1]

\* _update_action_states
update_action_states(tbl, sel) ==
    LET single_selection == Cardinality(sel) = 1
        status == IF single_selection
                  THEN status_at_row(tbl, CHOOSE r \in sel : TRUE) ELSE ""
        is_draft == single_selection /\ status = "Draft"
        is_posted == single_selection /\ status = "Posted"
        can_post_any_draft ==
            \E r \in sel : status_at_row(tbl, r) = "Draft"
    IN  [edit |-> single_selection /\ is_draft,
         view |-> single_selection,
         post |-> can_post_any_draft,
         reverse |-> single_selection /\ is_posted]

\* The items of status_filter_combo.
StatusFilters == {"All", "Draft", "Posted"}

\* get_journal_entries_for_listing(filters): the rows are of the status
\* asked for ("All" is no status filter)
Matches(rows, status) ==
    status = "All" \/ \A k \in DOMAIN rows : rows[k].status = status

\* _load_entries up to its await: the filters are read and the listing is
\* requested.
load_entries_start(i) ==
    /\ i \in 1..Len(loadTasks) /\ loadTasks[i].pc = "start"
    /\ IF ~hasManager
       THEN /\ errLog' = errLog \cup {"listing"}
            /\ uiQueue' = Append(uiQueue, QueuedMsg("Critical Error"))
            /\ loadTasks' = RemoveAt(loadTasks, i)
            /\ UNCHANGED calls
       ELSE /\ calls' = Append(calls,
                    Call("list", 0, [status |-> status_filter]))
            /\ loadTasks' = [loadTasks EXCEPT
                    ![i] = [pc |-> "await", status |-> status_filter]]
            /\ UNCHANGED <<errLog, uiQueue>>
    /\ UNCHANGED <<dlgVars, coreVars, lastMsg, widgetOps, userVars,
                   table, selection, actions, postTasks, reverseTasks, nOps>>

load_entries_result_ClearsOnFailure(i, res) ==
    /\ i \in 1..Len(loadTasks) /\ loadTasks[i].pc = "await"
    /\ res.kind = "ok" => Matches(res.rows, loadTasks[i].status)
    /\ loadTasks' = RemoveAt(loadTasks, i)
    /\ IF res.kind = "ok"
       THEN /\ uiQueue' = Append(uiQueue, Ev("update_table", "",
                                [wellFormed |-> TRUE, rows |-> res.rows]))
            /\ UNCHANGED <<errLog, table>>
       ELSE /\ errLog' = errLog \cup {"listing"}
            /\ uiQueue' = Append(uiQueue, QueuedMsg("Load Error"))
            /\ table' = << >>
    /\ UNCHANGED <<dlgVars, coreVars, lastMsg, calls, widgetOps,
                   userVars, selection, actions, postTasks,
                   reverseTasks, nOps>>

\* ... the Result arrives, or the call raises.  A success carries rows that
\* pass the filters the call was made with.
load_entries_result(i, res) ==
    /\ i \in 1..Len(loadTasks) /\ loadTasks[i].pc = "await"
    /\ res.kind = "ok" => Matches(res.rows, loadTasks[i].status)
    /\ loadTasks' = RemoveAt(loadTasks, i)
    /\ IF res.kind = "ok"
       THEN /\ uiQueue' = Append(uiQueue, Ev("update_table", "",
                                [wellFormed |-> TRUE, rows |-> res.rows]))
            /\ UNCHANGED errLog
       ELSE /\ errLog' = errLog \cup {"listing"}
            /\ uiQueue' = Append(uiQueue, QueuedMsg("Load Error"))
    /\ UNCHANGED <<dlgVars, coreVars, lastMsg, calls, widgetOps,
                   userVars, table, selection, actions, postTasks,
                   reverseTasks, nOps>>

\* _update_table_model_slot.  update_data resets the model, which clears
\* the view's selection.
update_table_model_slot ==
    /\ uiQueue # << >> /\ Head(uiQueue).ev = "update_table"
    /\ uiQueue' = Tail(uiQueue)
    /\ IF Head(uiQueue).payload.wellFormed
       THEN /\ table' = Head(uiQueue).payload.rows
            /\ selection' = {}
            /\ widgetOps' = widgetOps \cup {<<"table_model", "ui">>}
            /\ UNCHANGED lastMsg
       ELSE /\ lastMsg' = Msg("Data Error", 0, 0)
            /\ widgetOps' = widgetOps \cup {<<"message", "ui">>}
            /\ UNCHANGED <<table, selection>>
    /\ actions' = update_action_states(table', selection')
    /\ UNCHANGED <<dlgVars, coreVars, calls, errLog, userVars,
                   loadTasks, postTasks, reverseTasks, nOps>>

----------------------------------------------------------------------------
(* JournalEntriesWidget: what the user does.  The list takes input while  *)
(* no dialog is open (dialog.exec() is modal).  A toolbar handler runs    *)
(* only while its QAction is enabled.                                     *)

ListInput == dlgState # "open" /\ nOps < MaxOps

\* The model follows one dialog object at a time: the next one is opened
\* once the coroutines and queued slots of the one before are over.
DialogIdle ==
    /\ comboTask = "done" /\ entryTask = "done" /\ saveTasks = << >>
    /\ \A k \in 1..Len(uiQueue) :
           uiQueue[k].ev \notin {"populate", "update_combos", "accept"}

\* a QMessageBox shown by a handler itself
ListShow(title) ==
    /\ lastMsg' = Msg(title, 0, 0)
    /\ widgetOps' = widgetOps \cup {<<"message", "ui">>}
    /\ UNCHANGED dlgVars

\* JournalEntryDialog(...), journal_entry_saved.connect(...), dialog.exec()
ListOpen(je_id, view_only, is_connected) ==
    /\ Construct(je_id, view_only, is_connected)
    /\ nEdits' = 0 /\ nSaves' = 0
    /\ widgetOps' = widgetOps \cup {<<"dialog", "ui">>}
    /\ UNCHANGED lastMsg

ListFrame ==
    UNCHANGED <<coreVars, uiQueue, calls, errLog, userVars, table,
                selection, actions, loadTasks, postTasks, reverseTasks>>

\* _get_selected_entry_id_and_status with require_single_selection: the
\* message it shows ("" for none), the id (0 is None) and the status
get_selected_entry_id_and_status(tbl, sel) ==
    IF sel = {} \/ Cardinality(sel) > 1
    THEN [msg |-> "Selection", id |-> 0, status |-> ""]
    ELSE LET row == CHOOSE r \in sel : TRUE
         IN  [msg |-> "", id |-> id_at_row(tbl, row),
              status |-> status_at_row(tbl, row)]

\* the view's selection changes: selectionChanged -> _update_action_states
UserSelect(sel) ==
    /\ ListInput
    /\ sel \subseteq 1..Len(table) /\ sel # selection
    /\ selection' = sel
    /\ actions' = update_action_states(table, sel)
    /\ nOps' = nOps + 1
    /\ UNCHANGED <<dlgVars, sharedVars, userVars, table, loadTasks,
                   postTasks, reverseTasks>>

\* the user picks another item of the status filter combo
UserSetStatusFilter(status) ==
    /\ dlgState # "open"
    /\ status \in StatusFilters /\ status # status_filter
    /\ status_filter' = status
    /\ UNCHANGED <<dlgVars, sharedVars, current_user, table, selection,
                   actions, loadTasks, postTasks, reverseTasks, nOps>>

\* Clear Filters: the filters are reset and _load_entries is scheduled
clear_filters_and_load ==
    /\ ListInput
    /\ status_filter' = "All"
    /\ loadTasks' = Append(loadTasks, [pc |-> "start"])
    /\ nOps' = nOps + 1
    /\ UNCHANGED <<dlgVars, sharedVars, current_user, table, selection,
                   actions, postTasks, reverseTasks>>

\* Apply Filter and Refresh List: each schedules _load_entries, which reads
\* the filters when it starts.  Of the filters the model follows the status;
\* the others show as the choice of the listing returned.
UserReload ==
    /\ ListInput
    /\ loadTasks' = Append(loadTasks, [pc |-> "start"])
    /\ nOps' = nOps + 1
    /\ UNCHANGED <<dlgVars, sharedVars, userVars, table, selection,
                   actions, postTasks, reverseTasks>>

on_new_entry ==
    /\ ListInput /\ DialogIdle
    /\ IF ~current_user THEN ListShow("Auth Error")
       ELSE ListOpen(0, FALSE, TRUE)
    /\ nOps' = nOps + 1
    /\ ListFrame

on_edit_entry ==
    LET s == get_selected_entry_id_and_status(table, selection)
    IN  /\ ListInput /\ DialogIdle /\ actions.edit
        /\ IF s.msg # "" THEN ListShow(s.msg)
           ELSE IF s.id = 0 THEN UNCHANGED <<dlgVars, lastMsg, widgetOps>>
           ELSE IF s.status # "Draft" THEN ListShow("Edit Error")
           ELSE IF ~current_user THEN ListShow("Auth Error")
           ELSE ListOpen(s.id, FALSE, TRUE)
        /\ nOps' = nOps + 1
        /\ ListFrame

show_view_entry_dialog_NoAuth(entry_id) ==
    ListOpen(entry_id, TRUE, FALSE)

show_view_entry_dialog(entry_id) ==
    IF ~current_user THEN ListShow("Auth Error")
    ELSE ListOpen(entry_id, TRUE, FALSE)

on_view_entry_toolbar ==
    LET s == get_selected_entry_id_and_status(table, selection)
    IN  /\ ListInput /\ DialogIdle /\ actions.view
        /\ IF s.msg # "" THEN ListShow(s.msg)
           ELSE IF s.id = 0 THEN UNCHANGED <<dlgVars, lastMsg, widgetOps>>
           ELSE show_view_entry_dialog(s.id)
        /\ nOps' = nOps + 1
        /\ ListFrame

\* A double click on a row; its first click has made the row the selection.
on_view_entry_double_click(row) ==
    /\ ListInput /\ DialogIdle
    /\ row \in 1..Len(table)
    /\ selection' = {row}
    /\ actions' = update_action_states(table, {row})
    /\ IF id_at_row(table, row) = 0
       THEN UNCHANGED <<dlgVars, lastMsg, widgetOps>>
       ELSE show_view_entry_dialog(id_at_row(table, row))
    /\ nOps' = nOps + 1
    /\ UNCHANGED <<coreVars, uiQueue, calls, errLog, userVars, table,
                   loadTasks, postTasks, reverseTasks>>

\* entries_to_post_ids: the ids of the selected Draft rows
RECURSIVE DraftIds(_, _, _)
DraftIds(tbl, sel, r) ==
    IF r > Len(tbl) THEN << >>
    ELSE (IF r \in sel /\ tbl[r].id # 0 /\ tbl[r].status = "Draft"
          THEN <<tbl[r].id>> ELSE << >>) \o DraftIds(tbl, sel, r + 1)

on_post_entry ==
    LET entries_to_post_ids == DraftIds(table, selection, 1)
    IN  /\ ListInput /\ actions.post
        /\ IF selection = {} THEN ListShow("Selection") /\ UNCHANGED postTasks
           ELSE IF ~current_user
           THEN ListShow("Auth Error") /\ UNCHANGED postTasks
           ELSE IF entries_to_post_ids = << >>
           THEN ListShow("Selection") /\ UNCHANGED postTasks
           ELSE /\ postTasks' = Append(postTasks,
                       [ids |-> entries_to_post_ids, k |-> 0,
                        success_count |-> 0, errors |-> << >>,
                        results |-> << >>, pc |-> "start"])
                /\ UNCHANGED <<dlgVars, lastMsg, widgetOps>>
        /\ nOps' = nOps + 1
        /\ UNCHANGED <<coreVars, uiQueue, calls, errLog, userVars, table,
                       selection, actions, loadTasks, reverseTasks>>

\* reply: the confirmation was answered Yes; date: the date input was
\* "cancel"led (or left empty), "invalid" or "valid"; ok_desc: the
\* description input was accepted, with the text desc in it
on_reverse_entry(reply, date, ok_desc, desc) ==
    LET s == get_selected_entry_id_and_status(table, selection)
    IN  /\ ListInput /\ actions.reverse
        /\ IF s.id = 0 \/ s.status # "Posted"
           THEN ListShow("Reverse Error") /\ UNCHANGED reverseTasks
           ELSE IF ~current_user
           THEN ListShow("Auth Error") /\ UNCHANGED reverseTasks
           ELSE IF ~reply
           THEN /\ widgetOps' = widgetOps \cup {<<"message", "ui">>}
                /\ UNCHANGED <<dlgVars, lastMsg, reverseTasks>>
           ELSE IF date = "cancel"
           THEN ListShow("Cancelled") /\ UNCHANGED reverseTasks
           ELSE IF date = "invalid"
           THEN ListShow("Invalid Date") /\ UNCHANGED reverseTasks
           ELSE IF ~ok_desc
           THEN ListShow("Cancelled") /\ UNCHANGED reverseTasks
           ELSE /\ reverseTasks' = Append(reverseTasks,
                       [id |-> s.id, reversal_date |-> date,
                        description |-> desc, pc |-> "start"])
                /\ widgetOps' = widgetOps \cup {<<"message", "ui">>}
                /\ UNCHANGED <<dlgVars, lastMsg>>
        /\ nOps' = nOps + 1
        /\ UNCHANGED <<coreVars, uiQueue, calls, errLog, userVars, table,
                       selection, actions, loadTasks, postTasks>>

----------------------------------------------------------------------------
(* JournalEntriesWidget: the post and reverse coroutines. *)

\* _perform_post_entries up to its first await
perform_post_entries_start(i) ==
    /\ i \in 1..Len(postTasks) /\ postTasks[i].pc = "start"
    /\ IF ~hasManager
       THEN /\ uiQueue' = Append(uiQueue, QueuedMsg("Error"))
            /\ postTasks' = RemoveAt(postTasks, i)
            /\ UNCHANGED calls
       ELSE /\ calls' = Append(calls,
                               Call("post", postTasks[i].ids[1], NoEntry))
            /\ postTasks' = [postTasks EXCEPT ![i].pc = "await", ![i].k = 1]
            /\ UNCHANGED uiQueue
    /\ UNCHANGED <<dlgVars, coreVars, lastMsg, widgetOps, errLog,
                   userVars, table, selection, actions, loadTasks,
                   reverseTasks, nOps>>

\* The summary: title, "<success_count> of <len(entry_ids)> entries posted."
\* and one error line for each entry in errors.
PostReport(title, success_count, total, errors) ==
    [title |-> title, success_count |-> success_count, total |-> total,
     errors |-> errors]

\* The title line 330 computes.
post_summary_title(success_count, errors) ==
    IF errors = << >> /\ success_count > 0 THEN "Posting Complete"
    ELSE IF success_count = 0 THEN "Posting Failed"
    ELSE "Posting Partially Failed"

\* ... the Result of one post arrives: the next id is posted, or the loop
\* is over.  (After a failure the entry is looked up for its number; the
\* lookup only words the message and its exceptions are swallowed.)  The
\* summary goes through invokeMethod with a function for its object and ""
\* for its member, unlike every other call in the file: summary says
\* whether the binding queues the box or raises, which ends the coroutine.
perform_post_entries_result(i, is_success, summary) ==
    /\ i \in 1..Len(postTasks) /\ postTasks[i].pc = "await"
    /\ LET t == postTasks[i]
           sc == IF is_success THEN t.success_count + 1 ELSE t.success_count
           errs == IF is_success THEN t.errors
                   ELSE Append(t.errors, t.ids[t.k])
       IN  IF t.k < Len(t.ids)
           THEN /\ calls' = Append(calls, Call("post", t.ids[t.k + 1], NoEntry))
                /\ postTasks' = [postTasks EXCEPT ![i].k = t.k + 1,
                                    ![i].success_count = sc, ![i].errors = errs,
                                    ![i].results = Append(t.results, is_success)]
                /\ UNCHANGED <<uiQueue, loadTasks>>
           ELSE IF summary = "raise"
           THEN /\ postTasks' = RemoveAt(postTasks, i)
                /\ UNCHANGED <<calls, uiQueue, loadTasks>>
           ELSE /\ postTasks' = RemoveAt(postTasks, i)
                /\ uiQueue' = Append(uiQueue,
                       Ev("msg", post_summary_title(sc, errs),
                          PostReport(post_summary_title(sc, errs), sc,
                                     Len(t.ids), errs)))
                /\ loadTasks' = IF sc > 0
                                THEN Append(loadTasks, [pc |-> "start"])
                                ELSE loadTasks
                /\ UNCHANGED calls
    /\ UNCHANGED <<dlgVars, coreVars, lastMsg, widgetOps, errLog,
                   userVars, table, selection, actions, reverseTasks, nOps>>

\* ... post_journal_entry raises: no except clause, the coroutine ends in
\* the middle of the batch.
perform_post_entries_raises(i) ==
    /\ i \in 1..Len(postTasks) /\ postTasks[i].pc = "await"
    /\ postTasks' = RemoveAt(postTasks, i)
    /\ UNCHANGED <<dlgVars, sharedVars, userVars, table, selection,
                   actions, loadTasks, reverseTasks, nOps>>

\* _perform_reverse_entry up to its await
perform_reverse_entry_start(i) ==
    /\ i \in 1..Len(reverseTasks) /\ reverseTasks[i].pc = "start"
    /\ IF ~hasManager
       THEN /\ uiQueue' = Append(uiQueue, QueuedMsg("Error"))
            /\ reverseTasks' = RemoveAt(reverseTasks, i)
            /\ UNCHANGED calls
       ELSE /\ calls' = Append(calls,
                   Call("reverse", reverseTasks[i].id,
                        [reversal_date |-> reverseTasks[i].reversal_date,
                         description |-> reverseTasks[i].description]))
            /\ reverseTasks' = [reverseTasks EXCEPT ![i].pc = "await"]
            /\ UNCHANGED uiQueue
    /\ UNCHANGED <<dlgVars, coreVars, lastMsg, widgetOps, errLog,
                   userVars, table, selection, actions, loadTasks,
                   postTasks, nOps>>

\* journal_entry_manager.reverse_journal_entry when it succeeds: the
\* counter-entry is created as a draft and the original stays posted.
reverse_journal_entry(entry_id) ==
    [original |-> Row(entry_id, "Posted"), value |-> Row(NewId, "Draft")]

perform_reverse_entry_result_NoReload(i, ok) ==
    /\ i \in 1..Len(reverseTasks) /\ reverseTasks[i].pc = "await"
    /\ reverseTasks' = RemoveAt(reverseTasks, i)
    /\ IF ok
       THEN /\ reversals' = Append(reversals,
                                   reverse_journal_entry(reverseTasks[i].id))
            /\ uiQueue' = Append(uiQueue,
                   Ev("msg", "Success",
                      [title |-> "Success",
                       entry |-> reverse_journal_entry(reverseTasks[i].id).value]))
            /\ UNCHANGED loadTasks
       ELSE /\ uiQueue' = Append(uiQueue, QueuedMsg("Reversal Error"))
            /\ UNCHANGED <<loadTasks, reversals>>
    /\ UNCHANGED <<dlgVars, hasManager, restVars, lastMsg, calls, widgetOps, errLog,
                   userVars, table, selection, actions, postTasks, nOps>>

\* ... the Result arrives; ok: result.is_success and result.value
perform_reverse_entry_result(i, ok) ==
    /\ i \in 1..Len(reverseTasks) /\ reverseTasks[i].pc = "await"
    /\ reverseTasks' = RemoveAt(reverseTasks, i)
    /\ IF ok
       THEN /\ reversals' = Append(reversals,
                                   reverse_journal_entry(reverseTasks[i].id))
            /\ uiQueue' = Append(uiQueue,
                   Ev("msg", "Success",
                      [title |-> "Success",
                       entry |-> reverse_journal_entry(reverseTasks[i].id).value]))
            /\ loadTasks' = Append(loadTasks, [pc |-> "start"])
       ELSE /\ uiQueue' = Append(uiQueue, QueuedMsg("Reversal Error"))
            /\ UNCHANGED <<loadTasks, reversals>>
    /\ UNCHANGED <<dlgVars, hasManager, restVars, lastMsg, calls, widgetOps, errLog,
                   userVars, table, selection, actions, postTasks, nOps>>

\* ... reverse_journal_entry raises: no except clause, the coroutine ends.
perform_reverse_entry_raises(i) ==
    /\ i \in 1..Len(reverseTasks) /\ reverseTasks[i].pc = "await"
    /\ reverseTasks' = RemoveAt(reverseTasks, i)
    /\ UNCHANGED <<dlgVars, sharedVars, userVars, table, selection,
                   actions, loadTasks, postTasks, nOps>>

----------------------------------------------------------------------------
(* DashboardWidget.  A Decimal is a record: none (None), finite with its  *)
(* value in thousandths, inf or nan.  A label's text is a record too: a   *)
(* literal string, a currency amount "<prefix> <d,ddd>.<dd>" or a ratio    *)
(* "<d>.<dd> : 1".                                                         *)

Dec(n) == [kind |-> "finite", thou |-> n]
DNone == [kind |-> "none", thou |-> 0]
DInf == [kind |-> "inf", thou |-> 0]
DNaN == [kind |-> "nan", thou |-> 0]

Text(str) == [kind |-> "text", text |-> str]

ThouPerCent == 10        \* thousandths in a hundredth
CentsPerUnit == 100
GroupSize == 1000        \* the "," of the format groups by thousands

\* Decimal.__format__ with ".2f": to two places, ties to even.
RoundToCents(n) ==
    LET q == n \div ThouPerCent
        r == n % ThouPerCent
    IN  IF 2 * r > ThouPerCent THEN q + 1
        ELSE IF 2 * r < ThouPerCent THEN q
        ELSE IF q % 2 = 0 THEN q ELSE q + 1

\* the digits before the point, in groups of three from the right
RECURSIVE DigitGroups(_)
DigitGroups(n) ==
    IF n < GroupSize THEN <<n>>
    ELSE Append(DigitGroups(n \div GroupSize), n % GroupSize)

format_decimal_for_display_Truncated(value, currency_symbol) ==
    IF value.kind = "none" THEN Text("N/A")
    ELSE IF value.kind # "finite" THEN Text("N/A (Infinite)")
    ELSE LET cents == Abs(value.thou) \div ThouPerCent
         IN  [kind |-> "currency", prefix |-> currency_symbol,
              neg |-> value.thou < 0,
              groups |-> DigitGroups(cents \div CentsPerUnit),
              frac |-> cents % CentsPerUnit]

\* _format_decimal_for_display; currency_symbol "" gives no prefix.  (The
\* except clause answers a value Decimal() cannot read; the values here
\* are Decimals or None.)
format_decimal_for_display(value, currency_symbol) ==
    IF value.kind = "none" THEN Text("N/A")
    ELSE IF value.kind # "finite" THEN Text("N/A (Infinite)")
    ELSE LET cents == RoundToCents(Abs(value.thou))
         IN  [kind |-> "currency", prefix |-> currency_symbol,
              neg |-> value.thou < 0,
              groups |-> DigitGroups(cents \div CentsPerUnit),
              frac |-> cents % CentsPerUnit]

\* _format_ratio_for_display
format_ratio_for_display(value) ==
    IF value.kind = "none" THEN Text("N/A")
    ELSE IF value.kind # "finite" THEN Text("N/A (Infinite)")
    ELSE LET cents == RoundToCents(Abs(value.thou))
         IN  [kind |-> "ratio", neg |-> value.thou < 0,
              int |-> cents \div CentsPerUnit, frac |-> cents % CentsPerUnit,
              suffix |-> " : 1"]

\* the labels add_kpi_row made: eight amounts and three ratios
AmountLabels == {"revenue", "expenses", "net_profit", "cash_balance",
                 "ar", "ap", "ar_overdue", "ap_overdue"}
RatioLabels == {"current_ratio", "quick_ratio", "debt_to_equity"}
KpiLabels == AmountLabels \cup RatioLabels

\* DashboardKPIData as the manager can return it.  Amounts in thousandths:
\* 1,234.565 and 1,000.004 round to 1,234.56 and 1,000.00; the ratios
\* 1.5, 1.255 and 0.745 to 1.50, 1.26 and 0.74.  The second snapshot has
\* a loss, an amount and a ratio that are None, and ratios that are not
\* finite.
KpiSnapshots ==
    { [kpi_period_description |-> "YTD", base_currency |-> "SGD",
       total_revenue_ytd |-> Dec(1234565), total_expenses_ytd |-> Dec(1000004),
       net_profit_ytd |-> Dec(234567), current_cash_balance |-> Dec(999995),
       total_outstanding_ar |-> Dec(0), total_outstanding_ap |-> Dec(500),
       total_ar_overdue |-> Dec(5), total_ap_overdue |-> Dec(15),
       current_ratio |-> Dec(1500), quick_ratio |-> Dec(1255),
       debt_to_equity_ratio |-> Dec(745),
       ar_aging |-> <<100000, 50000, 0, 0, 2500>>,
       ap_aging |-> <<0, 0, 0, 0, 0>>],
      [kpi_period_description |-> "YTD", base_currency |-> "",
       total_revenue_ytd |-> Dec(0), total_expenses_ytd |-> Dec(1234565),
       net_profit_ytd |-> Dec(0 - 1234565), current_cash_balance |-> DNone,
       total_outstanding_ar |-> DInf, total_outstanding_ap |-> Dec(1000000000),
       total_ar_overdue |-> Dec(0 - 4), total_ap_overdue |-> DNaN,
       current_ratio |-> DNone, quick_ratio |-> DInf,
       debt_to_equity_ratio |-> DNaN,
       ar_aging |-> <<0, 0, 0, 0, 0>>,
       ap_aging |-> <<0, 7000, 0, 0, 0>>] }

\* What awaiting get_dashboard_kpis gives: a snapshot, a snapshot whose JSON
\* DashboardKPIData does not validate, None, or an exception.
KpiResults ==
    {[kind |-> "ok", value |-> d] : d \in KpiSnapshots}
    \cup {[kind |-> k, value |-> NoEntry] : k \in {"unreadable", "none", "raise"}}

\* model_dump_json and model_validate_json: Decimals travel as strings and
\* come back digit for digit; "" is the payload for no data.
EmptyPayload == [empty |-> TRUE, wellFormed |-> FALSE, fields |-> NoEntry]

model_dump_json(res) ==
    [empty |-> FALSE, wellFormed |-> res.kind = "ok", fields |-> res.value]

model_validate_json(payload) ==
    IF payload.wellFormed THEN payload.fields ELSE NoEntry

EmptyChart == [bars |-> << >>, axis_max |-> 0]

RECURSIVE MaxOf(_)
MaxOf(vals) ==
    IF vals = << >> THEN 0
    ELSE LET m == MaxOf(Tail(vals))
         IN  IF Head(vals) > m THEN Head(vals) ELSE m

AxisHeadroomPercent == 115
AxisDefaultMax == 100

\* _update_aging_chart: five bars, the value axis from 0 to 115% of the
\* largest bar (in thousandths of a percent of a unit), or to 100.
update_aging_chart(aging_data) ==
    [bars |-> aging_data,
     axis_max |-> IF MaxOf(aging_data) > 0
                  THEN MaxOf(aging_data) * AxisHeadroomPercent
                  ELSE AxisDefaultMax * GroupSize * CentsPerUnit]

\* what no dashboard handler touches
journalVars == <<dlgVars, listVars, hasManager, reversals, svcVars>>

\* _request_kpi_load.  scheduled: schedule_task_from_qt returned a future.
request_kpi_load(scheduled) ==
    /\ load_request_count' = load_request_count + 1
    /\ kpi_labels' = [l \in KpiLabels |-> Text("Loading...")]
    /\ charts' = [ar |-> EmptyChart, ap |-> EmptyChart]
    /\ period_label' = Text("Loading...")
    /\ base_currency_label' = Text("Loading...")
    /\ IF scheduled
       THEN /\ kpiTasks' = Append(kpiTasks, [pc |-> "start"])
            /\ refresh_enabled' = FALSE
            /\ UNCHANGED errLog
       ELSE /\ errLog' = errLog \cup {"kpi schedule"}
            /\ refresh_enabled' = TRUE
            /\ UNCHANGED kpiTasks
    /\ widgetOps' = widgetOps \cup {<<"dashboard", "ui">>}
    /\ UNCHANGED <<journalVars, hasDashboardManager, uiQueue, lastMsg, calls>>

\* QTimer.singleShot(0, self._request_kpi_load) fires
TimerKpiLoad(scheduled) ==
    /\ kpiTimer /\ kpiTimer' = FALSE
    /\ request_kpi_load(scheduled)

\* refresh_button.clicked; a disabled button emits nothing.  The zero timer
\* the constructor set fires when the event loop starts, before any input
\* reaches the button.
UserRefreshKpis(scheduled) ==
    /\ ~kpiTimer
    /\ refresh_enabled /\ load_request_count < MaxRequests
    /\ request_kpi_load(scheduled)
    /\ UNCHANGED kpiTimer

\* what a finished fetch leaves in the UI thread's queue: the slot the
\* coroutine queued last, then setEnabled(True) from the done callback
KpiDone(payload) ==
    <<Ev("kpi", "", payload), Ev("setEnabled", "", NoEntry)>>

\* _fetch_kpis_data up to its await
fetch_kpis_data_start(i) ==
    /\ i \in 1..Len(kpiTasks) /\ kpiTasks[i].pc = "start"
    /\ IF ~hasDashboardManager
       THEN /\ errLog' = errLog \cup {"kpi manager"}
            /\ uiQueue' = uiQueue \o KpiDone(EmptyPayload)
            /\ kpiTasks' = RemoveAt(kpiTasks, i)
            /\ UNCHANGED calls
       ELSE /\ calls' = Append(calls, Call("kpis", 0, NoEntry))
            /\ kpiTasks' = [kpiTasks EXCEPT ![i].pc = "await"]
            /\ UNCHANGED <<uiQueue, errLog>>
    /\ UNCHANGED <<journalVars, hasDashboardManager, kpi_labels, period_label,
                   base_currency_label, charts, refresh_enabled,
                   load_request_count, kpiTimer, lastMsg, widgetOps>>

\* ... get_dashboard_kpis returns or raises
fetch_kpis_data_result(i, res) ==
    /\ i \in 1..Len(kpiTasks) /\ kpiTasks[i].pc = "await"
    /\ kpiTasks' = RemoveAt(kpiTasks, i)
    /\ errLog' = IF res.kind = "raise" THEN errLog \cup {"kpi fetch"} ELSE errLog
    /\ uiQueue' = uiQueue \o
           KpiDone(IF res.kind \in {"ok", "unreadable"}
                   THEN model_dump_json(res) ELSE EmptyPayload)
    /\ UNCHANGED <<journalVars, hasDashboardManager, kpi_labels, period_label,
                   base_currency_label, charts, refresh_enabled,
                   load_request_count, kpiTimer, lastMsg, calls, widgetOps>>

\* the labels and charts of a snapshot
kpi_display(dto) ==
    LET bc_symbol == dto.base_currency
        amount(v) == format_decimal_for_display(v, bc_symbol)
    IN  [labels |->
            [l \in KpiLabels |->
                CASE l = "revenue" -> amount(dto.total_revenue_ytd)
                  [] l = "expenses" -> amount(dto.total_expenses_ytd)
                  [] l = "net_profit" -> amount(dto.net_profit_ytd)
                  [] l = "cash_balance" -> amount(dto.current_cash_balance)
                  [] l = "ar" -> amount(dto.total_outstanding_ar)
                  [] l = "ap" -> amount(dto.total_outstanding_ap)
                  [] l = "ar_overdue" -> amount(dto.total_ar_overdue)
                  [] l = "ap_overdue" -> amount(dto.total_ap_overdue)
                  [] l = "current_ratio" ->
                         format_ratio_for_display(dto.current_ratio)
                  [] l = "quick_ratio" ->
                         format_ratio_for_display(dto.quick_ratio)
                  [] l = "debt_to_equity" ->
                         format_ratio_for_display(dto.debt_to_equity_ratio)],
         charts |-> [ar |-> update_aging_chart(dto.ar_aging),
                     ap |-> update_aging_chart(dto.ap_aging)],
         period |-> Text(dto.kpi_period_description),
         currency |-> Text(dto.base_currency)]

kpi_unavailable_RatiosLeft ==
    [labels |-> [l \in KpiLabels |->
                    IF l \in AmountLabels THEN Text("N/A - Data unavailable")
                    ELSE kpi_labels[l]],
     charts |-> [ar |-> EmptyChart, ap |-> EmptyChart],
     period |-> Text("N/A"), currency |-> Text("N/A")]

\* the placeholders for no snapshot
kpi_unavailable ==
    [labels |-> [l \in KpiLabels |-> Text("N/A - Data unavailable")],
     charts |-> [ar |-> EmptyChart, ap |-> EmptyChart],
     period |-> Text("N/A"), currency |-> Text("N/A")]

\* _update_kpi_display_slot
update_kpi_display_slot ==
    /\ uiQueue # << >> /\ Head(uiQueue).ev = "kpi"
    /\ uiQueue' = Tail(uiQueue)
    /\ refresh_enabled' = TRUE
    /\ LET kpi_data_json_str == Head(uiQueue).payload
           kpi_data_dto == IF kpi_data_json_str.empty THEN NoEntry
                           ELSE model_validate_json(kpi_data_json_str)
           shown == IF kpi_data_dto # NoEntry THEN kpi_display(kpi_data_dto)
                    ELSE kpi_unavailable
       IN  /\ kpi_labels' = shown.labels
           /\ charts' = shown.charts
           /\ period_label' = shown.period
           /\ base_currency_label' = shown.currency
           /\ errLog' = IF ~kpi_data_json_str.empty /\ kpi_data_dto = NoEntry
                        THEN errLog \cup {"kpi json"} ELSE errLog
           /\ lastMsg' = IF ~kpi_data_json_str.empty /\ kpi_data_dto = NoEntry
                         THEN Msg("Dashboard Data Error", 0, 0) ELSE lastMsg
    /\ widgetOps' = widgetOps \cup {<<"dashboard", "ui">>}
    /\ UNCHANGED <<journalVars, hasDashboardManager, load_request_count,
                   kpiTimer, kpiTasks, calls>>

\* the queued refresh_button.setEnabled(True)
set_enabled_slot ==
    /\ uiQueue # << >> /\ Head(uiQueue).ev = "setEnabled"
    /\ uiQueue' = Tail(uiQueue)
    /\ refresh_enabled' = TRUE
    /\ widgetOps' = widgetOps \cup {<<"dashboard", "ui">>}
    /\ UNCHANGED <<journalVars, hasDashboardManager, kpi_labels, period_label,
                   base_currency_label, charts, load_request_count, kpiTimer,
                   kpiTasks, lastMsg, calls, errLog>>

\* The dashboard as its constructor leaves it.
DashboardConstructed ==
    /\ kpi_labels = [l \in KpiLabels |-> Text("Loading...")]
    /\ period_label = Text("Loading...")
    /\ base_currency_label = Text("Loading...")
    /\ charts = [ar |-> EmptyChart, ap |-> EmptyChart]
    /\ refresh_enabled = TRUE
    /\ load_request_count = 0
    /\ kpiTimer = TRUE
    /\ kpiTasks = << >>

----------------------------------------------------------------------------
(* AccountTypeService, the persistence gateway of the AccountType reference
   data, over one AsyncSession per operation. *)

MissingId == 99

TypeNames == {"Current Asset", "Updated Name"}
TypeCategories == {"Asset", "Equity"}

AccountTypeModel(id, name, category) ==
    [id |-> id, name |-> name, category |-> category]

\* entities not yet stored: the id is unset (0) until the table gives one
NewAccountTypes ==
    {AccountTypeModel(0, n, c) : n \in TypeNames, c \in TypeCategories}

LookupIds == (1..MaxTypeId) \cup {MissingId}

EmptyStore == [i \in LookupIds |-> NoEntry]

\* the table when the service is first used: empty, or holding row 1
InitialStores ==
    {EmptyStore}
    \cup {[EmptyStore EXCEPT ![1] = AccountTypeModel(1, n, "Asset")] :
            n \in TypeNames}

SCall(op, arg) == [op |-> op, arg |-> arg]

\* session.get(AccountType, id): the row with that primary key, or None
session_get(id) == store[id]

\* the operation op(arg) is called: what every operation records
Called(op, arg) ==
    /\ svc_ops < MaxSvcOps
    /\ svc_ops' = svc_ops + 1
    /\ svc_call' = SCall(op, arg)

\* everything that is not the service's
screenVars == <<dlgVars, listVars, hasManager, reversals, dashVars, uiQueue,
                lastMsg, calls, widgetOps, errLog>>

get_by_id_FirstRow(id) ==
    /\ Called("get_by_id", id)
    /\ session_calls' = << SCall("get", id) >>
    /\ svc_result' = session_get(1)
    /\ UNCHANGED <<store, next_id, screenVars>>

get_by_id(id) ==
    /\ Called("get_by_id", id)
    /\ session_calls' = << SCall("get", id) >>
    /\ svc_result' = session_get(id)
    /\ UNCHANGED <<store, next_id, screenVars>>

save_NoRefresh(op, entity) ==
    LET row == IF entity.id = 0 THEN [entity EXCEPT !.id = next_id]
               ELSE entity
    IN  /\ Called(op, entity)
        /\ session_calls' = << SCall("add", entity), SCall("flush", NoEntry) >>
        /\ store' = [store EXCEPT ![row.id] = row]
        /\ next_id' = IF entity.id = 0 THEN next_id + 1 ELSE next_id
        /\ svc_result' = store'[row.id]
        /\ UNCHANGED screenVars

\* add and update: session.add(entity), flush (the row is written, a new row
\* under the table's next id), refresh(entity) (the entity is read back from
\* its row), return entity
save(op, entity) ==
    LET row == IF entity.id = 0 THEN [entity EXCEPT !.id = next_id]
               ELSE entity
    IN  /\ Called(op, entity)
        /\ session_calls' = << SCall("add", entity), SCall("flush", NoEntry),
                              SCall("refresh", entity) >>
        /\ store' = [store EXCEPT ![row.id] = row]
        /\ next_id' = IF entity.id = 0 THEN next_id + 1 ELSE next_id
        /\ svc_result' = store'[row.id]
        /\ UNCHANGED screenVars

add(entity) ==
    /\ next_id <= MaxTypeId
    /\ save("add", entity)

\* update is given a stored entity with fields changed
update(entity) ==
    /\ store[entity.id] # NoEntry
    /\ save("update", entity)

delete_RowKept(id) ==
    LET obj == session_get(id)
    IN  /\ Called("delete", id)
        /\ IF obj # NoEntry
           THEN /\ session_calls' = << SCall("get", id), SCall("delete", obj) >>
                /\ store' = store
                /\ svc_result' = TRUE
           ELSE /\ session_calls' = << SCall("get", id) >>
                /\ store' = store
                /\ svc_result' = FALSE
        /\ UNCHANGED <<next_id, screenVars>>

delete(id) ==
    LET obj == session_get(id)
    IN  /\ Called("delete", id)
        /\ IF obj # NoEntry
           THEN /\ session_calls' = << SCall("get", id), SCall("delete", obj) >>
                /\ store' = [store EXCEPT ![id] = NoEntry]
                /\ svc_result' = TRUE
           ELSE /\ session_calls' = << SCall("get", id) >>
                /\ store' = store
                /\ svc_result' = FALSE
        /\ UNCHANGED <<next_id, screenVars>>

\* AccountTypeService(db_manager, app_core): nothing called yet
ServiceConstructed ==
    /\ next_id = IF store[1] = NoEntry THEN 1 ELSE 2
    /\ session_calls = << >>
    /\ svc_call = SCall("none", 0)
    /\ svc_result = NoEntry
    /\ svc_ops = 0

\* the stored entities with some fields changed
Changed ==
    {[store[i] EXCEPT !.name = n, !.category = c] :
        i \in {k \in 1..MaxTypeId : store[k] # NoEntry},
        n \in TypeNames, c \in TypeCategories}

----------------------------------------------------------------------------
(* The dialog on its own: it has just been constructed by the list, for a *)
(* new entry, to edit entry EntryId or to view it.                        *)

InitShared ==
    /\ hasManager \in BOOLEAN
    /\ hasDashboardManager = TRUE
    /\ DashboardConstructed
    /\ store = EmptyStore
    /\ ServiceConstructed
    /\ reversals = << >>
    /\ uiQueue = << >>
    /\ lastMsg = NoMsg
    /\ calls = << >>
    /\ widgetOps = {}
    /\ errLog = {}

InitDialog ==
    /\ \E mode \in {"new", "edit", "view"} :
        LET je_id == IF mode = "new" THEN 0 ELSE EntryId
            view_only == mode = "view"
        IN  /\ dlgState = "open"
            /\ journal_entry_id = je_id
            /\ view_only_mode = view_only
            /\ connected = ~view_only
            /\ lines = InitialGrid(je_id, view_only).lines
            /\ totals = InitialGrid(je_id, view_only).totals
            /\ entryTask = IF je_id # 0 THEN "pending" ELSE "done"
    /\ loaded_orm = NoEntry
    /\ existing_dict = NoEntry
    /\ accounts_cache = << >>
    /\ tax_codes_cache = << >>
    /\ buttons = [saveVisible |-> TRUE, lineButtonsEnabled |-> TRUE]
    /\ comboTask = "pending"
    /\ saveTasks = << >>
    /\ emitted = << >>
    /\ nEdits = 0
    /\ nSaves = 0
    /\ InitShared
    /\ current_user = TRUE
    /\ status_filter = "All"
    /\ table = << >>
    /\ selection = {}
    /\ actions = update_action_states(<< >>, {})
    /\ loadTasks = << >>
    /\ postTasks = << >>
    /\ reverseTasks = << >>
    /\ nOps = 0

Outcomes == {"ok", "raise"}

\* What the user does to the lines.
LineEdits ==
    \/ UserAddLine
    \/ \E r \in 1..MaxLines : UserRemoveSelected(r)
    \/ \E r \in 1..MaxLines : UserClickDelete(r)
    \/ \E r \in 1..MaxLines, v \in Amounts : UserSetDebit(r, v)
    \/ \E r \in 1..MaxLines, v \in Amounts : UserSetCredit(r, v)
    \/ \E r \in 1..MaxLines, c \in {"", "SR", "WHT", "NR", "OLD"} : UserSelectTax(r, c)
    \/ \E r \in 1..MaxLines, a \in 1..3 : UserSelectAccount(r, a)

\* The buttons at the bottom of the dialog.
DialogButtons ==
    \/ on_save_draft
    \/ on_save_and_post
    \/ UserCancel

\* The two loads the constructor starts, and their slots.
DialogLoads ==
    \/ \E res \in Outcomes : ComboLoadAccounts(res)
    \/ \E res \in Outcomes : ComboLoadTaxCodes(res)
    \/ \E res \in Entries \cup {NoEntry} : load_existing_journal_entry(res)
    \/ load_existing_journal_entry_raises
    \/ update_combos_in_all_lines_slot
    \/ populate_dialog_from_data_slot
    \/ message_box_slot

\* A save after its call to the manager.
SaveCompletion ==
    \/ \E i \in DOMAIN saveTasks, ok \in BOOLEAN : perform_save_saved(i, ok)
    \/ \E i \in DOMAIN saveTasks, ok \in BOOLEAN : perform_save_posted(i, ok)
    \/ \E i \in DOMAIN saveTasks : perform_save_raises(i)
    \/ accept_slot

\* _load_entries and its slot.
ListLoads ==
    \/ \E i \in DOMAIN loadTasks : load_entries_start(i)
    \/ \E i \in DOMAIN loadTasks, res \in ListingResults :
           load_entries_result(i, res)
    \/ update_table_model_slot

\* The line editor: every input the user can make and both loads; a save
\* that passes validation runs as far as its call to the manager.
NextEditor ==
    \/ LineEdits
    \/ DialogButtons
    \/ DialogLoads
    \/ \E i \in DOMAIN saveTasks : perform_save_start(i)

SpecEditor == InitDialog /\ [][NextEditor]_vars

\* The dialog's buttons: the lines stay as the loads leave them, and every
\* save runs to its end, with the reload of the list it leads to.
NextDialog ==
    \/ DialogButtons
    \/ DialogLoads
    \/ \E i \in DOMAIN saveTasks : perform_save_start(i)
    \/ SaveCompletion
    \/ ListLoads

SpecDialog == InitDialog /\ [][NextDialog]_vars

----------------------------------------------------------------------------
(* The saves of a new-entry dialog: the reference data has arrived and    *)
(* the user has entered debit 100.00 on the first line and credit 100.00  *)
(* on the second.  The counters count the inputs that follow.             *)

EnteredGrid ==
    LET g1 == update_combos_from(InitialGrid(0, FALSE), 1, NoEntry,
                                 AccountsResult, TaxCodesResult)
        g2 == debit_valueChanged(g1, 1, 10000, TaxCodesResult)
    IN  credit_valueChanged(g2, 2, 10000, TaxCodesResult)

InitEntered ==
    /\ dlgState = "open"
    /\ journal_entry_id = 0
    /\ view_only_mode = FALSE
    /\ connected = TRUE
    /\ loaded_orm = NoEntry
    /\ existing_dict = NoEntry
    /\ accounts_cache = AccountsResult
    /\ tax_codes_cache = TaxCodesResult
    /\ lines = EnteredGrid.lines
    /\ totals = EnteredGrid.totals
    /\ buttons = [saveVisible |-> TRUE, lineButtonsEnabled |-> TRUE]
    /\ comboTask = "done"
    /\ entryTask = "done"
    /\ saveTasks = << >>
    /\ emitted = << >>
    /\ nEdits = 0
    /\ nSaves = 0
    /\ InitShared
    /\ current_user = TRUE
    /\ status_filter = "All"
    /\ table = << >>
    /\ selection = {}
    /\ actions = update_action_states(<< >>, {})
    /\ loadTasks = << >>
    /\ postTasks = << >>
    /\ reverseTasks = << >>
    /\ nOps = 0

NextSaves ==
    \/ DialogButtons
    \/ \E i \in DOMAIN saveTasks : perform_save_start(i)
    \/ SaveCompletion
    \/ message_box_slot
    \/ ListLoads

SpecSaves == InitEntered /\ [][NextSaves]_vars

----------------------------------------------------------------------------
(* The list: it has just been constructed, and the timer its constructor  *)
(* set has clicked Apply Filter.  The dialogs it opens are loaded and     *)
(* closed; what the user does inside a dialog is the matter of the two    *)
(* specifications above.                                                  *)

InitList ==
    /\ dlgState = "none"
    /\ journal_entry_id = 0
    /\ view_only_mode = FALSE
    /\ connected = FALSE
    /\ loaded_orm = NoEntry
    /\ existing_dict = NoEntry
    /\ accounts_cache = << >>
    /\ tax_codes_cache = << >>
    /\ lines = << >>
    /\ totals = EmptyTotals
    /\ buttons = [saveVisible |-> TRUE, lineButtonsEnabled |-> TRUE]
    /\ comboTask = "done"
    /\ entryTask = "done"
    /\ saveTasks = << >>
    /\ emitted = << >>
    /\ nEdits = 0
    /\ nSaves = 0
    /\ InitShared
    /\ current_user \in BOOLEAN
    /\ status_filter = "All"
    /\ table = << >>
    /\ selection = {}
    /\ actions = update_action_states(<< >>, {})
    /\ loadTasks = << [pc |-> "start"] >>
    /\ postTasks = << >>
    /\ reverseTasks = << >>
    /\ nOps = 0

\* the text in the description input: emptied, or the default kept
Descriptions == {"", "Reversal of JE"}

ListInputs ==
    \/ \E sel \in SUBSET (1..2) : UserSelect(sel)
    \/ UserReload
    \/ \E status \in StatusFilters : UserSetStatusFilter(status)
    \/ clear_filters_and_load
    \/ on_new_entry
    \/ on_edit_entry
    \/ on_view_entry_toolbar
    \/ \E row \in 1..2 : on_view_entry_double_click(row)
    \/ on_post_entry
    \/ \E reply \in BOOLEAN, date \in {"cancel", "invalid", "valid"},
          ok_desc \in BOOLEAN, desc \in Descriptions :
           on_reverse_entry(reply, date, ok_desc, desc)

ListTasks ==
    \/ \E i \in DOMAIN postTasks : perform_post_entries_start(i)
    \/ \E i \in DOMAIN postTasks, ok \in BOOLEAN,
          summary \in {"queued", "raise"} :
           perform_post_entries_result(i, ok, summary)
    \/ \E i \in DOMAIN reverseTasks : perform_reverse_entry_start(i)
    \/ \E i \in DOMAIN reverseTasks, ok \in BOOLEAN :
           perform_reverse_entry_result(i, ok)
    \/ \E i \in DOMAIN postTasks : perform_post_entries_raises(i)
    \/ \E i \in DOMAIN reverseTasks : perform_reverse_entry_raises(i)

NextList ==
    \/ ListInputs
    \/ ListTasks
    \/ ListLoads
    \/ DialogLoads
    \/ UserCancel

SpecList == InitList /\ [][NextList]_vars

----------------------------------------------------------------------------
(* The dashboard on its own. *)

\* no dialog is open and the list is empty
ScreensIdle ==
    /\ dlgState = "none"
    /\ journal_entry_id = 0
    /\ view_only_mode = FALSE
    /\ connected = FALSE
    /\ loaded_orm = NoEntry
    /\ existing_dict = NoEntry
    /\ accounts_cache = << >>
    /\ tax_codes_cache = << >>
    /\ lines = << >>
    /\ totals = EmptyTotals
    /\ buttons = [saveVisible |-> TRUE, lineButtonsEnabled |-> TRUE]
    /\ comboTask = "done"
    /\ entryTask = "done"
    /\ saveTasks = << >>
    /\ emitted = << >>
    /\ nEdits = 0
    /\ nSaves = 0
    /\ hasManager = TRUE
    /\ reversals = << >>
    /\ uiQueue = << >>
    /\ lastMsg = NoMsg
    /\ calls = << >>
    /\ widgetOps = {}
    /\ errLog = {}
    /\ current_user = TRUE
    /\ status_filter = "All"
    /\ table = << >>
    /\ selection = {}
    /\ actions = update_action_states(<< >>, {})
    /\ loadTasks = << >>
    /\ postTasks = << >>
    /\ reverseTasks = << >>
    /\ nOps = 0

InitDashboard ==
    /\ ScreensIdle
    /\ hasDashboardManager \in BOOLEAN
    /\ DashboardConstructed
    /\ store = EmptyStore
    /\ ServiceConstructed

NextDashboard ==
    \/ \E scheduled \in BOOLEAN : TimerKpiLoad(scheduled)
    \/ \E scheduled \in BOOLEAN : UserRefreshKpis(scheduled)
    \/ \E i \in DOMAIN kpiTasks : fetch_kpis_data_start(i)
    \/ \E i \in DOMAIN kpiTasks, res \in KpiResults : fetch_kpis_data_result(i, res)
    \/ update_kpi_display_slot
    \/ set_enabled_slot

SpecDashboard == InitDashboard /\ [][NextDashboard]_vars

----------------------------------------------------------------------------
(* The AccountType service on its own. *)

InitService ==
    /\ ScreensIdle
    /\ hasDashboardManager = TRUE
    /\ DashboardConstructed
    /\ store \in InitialStores
    /\ ServiceConstructed

NextService ==
    \/ \E id \in LookupIds : get_by_id(id)
    \/ \E entity \in NewAccountTypes : add(entity)
    \/ \E entity \in Changed : update(entity)
    \/ \E id \in LookupIds : delete(id)

SpecService == InitService /\ [][NextService]_vars

----------------------------------------------------------------------------
(* Properties of the line editor. *)

\* the dialog is in view-only mode, or its loaded entry is posted
ReadOnly == view_only_mode \/ (loaded_orm # NoEntry /\ loaded_orm.is_posted)

\* a user input other than adding a line has just been handled
UserInputStep == nEdits' # nEdits

\* the calls the dialog makes: create, update and post
DialogCalls == SelectSeq(calls, LAMBDA c : c.op \in {"create", "update", "post"})

HasAmount(row) == row.debit # 0 \/ row.credit # 0

\* C1: in every reachable state of the editor every line has at most one of
\* debit and credit non-zero; a step that changes a line's debit to a
\* non-zero value leaves its credit zero, and the same with the two swapped.
OneSidePerLine ==
    \A r \in DOMAIN lines : ~(lines[r].debit # 0 /\ lines[r].credit # 0)

SettingOneZeroesOther ==
    Len(lines') = Len(lines) =>
        \A r \in DOMAIN lines :
            /\ (lines'[r].debit # lines[r].debit /\ lines'[r].debit # 0)
                   => lines'[r].credit = 0
            /\ (lines'[r].credit # lines[r].credit /\ lines'[r].credit # 0)
                   => lines'[r].debit = 0

C1_DebitCreditExclusive ==
    []OneSidePerLine /\ [][SettingOneZeroesOther]_vars

\* The loaded line on account 3 came with a credit of 1000.00; it now has a
\* debit and no credit.
C1_Witness ==
    \E r \in DOMAIN lines :
        lines[r].acc = 3 /\ lines[r].debit # 0 /\ lines[r].credit = 0

\* C2: a save of an entry whose total debits and total credits differ by
\* more than 0.01 schedules no save and makes no call, and a message is
\* shown at once; when nothing else is wrong with the entry (the dialog is
\* editable and every line has an account) the message is the balance
\* error with both totals.  An entry with equal non-zero totals is saved.
\* No create or update call ever carries an entry out of balance.
Unbalanced ==
    Abs(SumDebits(lines) - SumCredits(lines)) > SaveToleranceCents

AllHaveAccount == \A r \in DOMAIN lines : lines[r].acc # 0

UnbalancedSaveRejected ==
    \A post \in BOOLEAN :
        (on_save(post) /\ Unbalanced) =>
            /\ saveTasks' = saveTasks /\ calls' = calls
            /\ <<"message", "ui">> \in widgetOps'
            /\ lastMsg'.title \in {"Info", "Validation Error", "Input Error",
                                   "Balance Error"}
            /\ (~ReadOnly /\ AllHaveAccount) =>
                   lastMsg' = Msg("Balance Error", SumDebits(lines),
                                  SumCredits(lines))

BalancedSaveAccepted ==
    \A post \in BOOLEAN :
        (on_save(post) /\ ~ReadOnly /\ AllHaveAccount
           /\ SumDebits(lines) = SumCredits(lines) /\ SumDebits(lines) # 0) =>
            /\ Len(saveTasks') = Len(saveTasks) + 1
            /\ lastMsg' = lastMsg

NoUnbalancedCall ==
    \A k \in DOMAIN calls :
        calls[k].op \in {"create", "update"} =>
            Abs(DtoDebits(calls[k].data.lines)
                - DtoCredits(calls[k].data.lines)) <= SaveToleranceCents

C2_UnbalancedSaveRejected ==
    [][UnbalancedSaveRejected /\ BalancedSaveAccepted]_vars /\ []NoUnbalancedCall

\* debit 100.00 against credit 90.00 has been refused
C2_Witness ==
    /\ lastMsg = Msg("Balance Error", 10000, 9000)
    /\ SumDebits(lines) = 10000 /\ SumCredits(lines) = 9000
    /\ saveTasks = << >> /\ calls = << >>

\* C3: a save while no line carries a non-zero amount schedules no save and
\* makes no call, and a message is shown at once; no create or update call
\* ever carries an entry without a non-zero amount.
ZeroEntrySaveRejected ==
    \A post \in BOOLEAN :
        (on_save(post) /\ \A r \in DOMAIN lines : ~HasAmount(lines[r])) =>
            /\ saveTasks' = saveTasks /\ calls' = calls
            /\ <<"message", "ui">> \in widgetOps'
            /\ lastMsg'.title \in {"Info", "Validation Error", "Input Error"}

NoZeroEntryCall ==
    \A k \in DOMAIN calls :
        calls[k].op \in {"create", "update"} =>
            \E j \in DOMAIN calls[k].data.lines :
                \/ calls[k].data.lines[j].debit_amount # 0
                \/ calls[k].data.lines[j].credit_amount # 0

NoAccountSaveRejected ==
    \A post \in BOOLEAN :
        (on_save(post) /\ ~ReadOnly) =>
            /\ (\E r \in DOMAIN lines : lines[r].acc = 0 /\ HasAmount(lines[r])) =>
                   /\ saveTasks' = saveTasks /\ calls' = calls
                   /\ uiQueue' = uiQueue
                   /\ lastMsg' = Msg("Validation Error", 0, 0)
            /\ (\A r \in DOMAIN lines : lines[r].acc = 0 /\ ~HasAmount(lines[r])) =>
                   /\ saveTasks' = saveTasks /\ calls' = calls
                   /\ uiQueue' = uiQueue
                   /\ lastMsg' = Msg("Input Error", 0, 0)
            /\ saveTasks' # saveTasks =>
                   LET sent == saveTasks'[Len(saveTasks')].data.lines
                       kept == {r \in DOMAIN lines : lines[r].acc # 0}
                   IN  /\ Len(sent) = Cardinality(kept)
                       /\ \A j \in DOMAIN sent : sent[j].account_id # 0

C4_NoAccountRejected == [][NoAccountSaveRejected]_vars

\* a line with an amount and no account, and the save has been refused
C4_Witness ==
    /\ \E r \in DOMAIN lines : lines[r].acc = 0 /\ HasAmount(lines[r])
    /\ lastMsg = Msg("Validation Error", 0, 0)
    /\ saveTasks = << >> /\ calls = << >>

\* C6: while the dialog is in view-only mode or its loaded entry is posted,
\* no step makes a create, update or post call, and no user input schedules
\* a save or leaves fewer lines than there were.
ReadOnlyNoCall == ReadOnly => DialogCalls' = DialogCalls

ReadOnlyInputInert ==
    (ReadOnly /\ UserInputStep) =>
        saveTasks' = saveTasks /\ Len(lines') >= Len(lines)

C6_ReadOnlyDialogInert == [][ReadOnlyNoCall /\ ReadOnlyInputInert]_vars

\* C7: every widget operation (table model update, lines table and combo
\* changes, message boxes, dialogs opening, accept and reject) is performed
\* by the UI thread.
C7_WidgetOpsOnUiThread == \A op \in widgetOps : op[2] = "ui"

\* C9: a line whose debit, credit or tax code a step changes, or that a
\* step adds, and whose slots are connected for the position it is at, has
\* afterwards the tax amount TaxDue: the base (the debit when non-zero,
\* else the credit) times rate/100 to the nearest cent when the selected
\* code is in the cache with type GST and a rate, and 0 otherwise.
NearestCent(n) ==
    CHOOSE t \in (n \div PercentDivisor)..(n \div PercentDivisor + 1) :
        /\ 2 * Abs(PercentDivisor * t - n) <= PercentDivisor
        /\ 2 * Abs(PercentDivisor * t - n) = PercentDivisor => t % 2 = 0

TaxDue(row, tcache) ==
    LET base == IF row.debit # 0 THEN row.debit ELSE row.credit
        gst == {i \in DOMAIN tcache :
                   /\ tcache[i].code = row.tax
                   /\ tcache[i].tax_type = "GST"
                   /\ tcache[i].rate # NoRate}
    IN  IF row.tax = "" \/ base = 0 \/ gst = {} THEN 0
        ELSE NearestCent(base * tcache[CHOOSE i \in gst : TRUE].rate)

TaxRecalculated ==
    \A r \in DOMAIN lines' :
        (/\ lines'[r].cap = r
         /\ Len(lines') >= Len(lines)
         /\ \/ r > Len(lines)
            \/ lines'[r].debit # lines[r].debit
            \/ lines'[r].credit # lines[r].credit
            \/ lines'[r].tax # lines[r].tax)
        => lines'[r].taxamt = TaxDue(lines'[r], tax_codes_cache')

C9_TaxAmount == [][TaxRecalculated]_vars

\* The loaded line on account 3 (credit 1000.00, tax code "OLD", tax 0.00)
\* has been given the 7% code and shows 70.00.
C9_Witness ==
    \E r \in DOMAIN lines :
        /\ lines[r].acc = 3 /\ lines[r].credit = 100000
        /\ lines[r].tax = "SR" /\ lines[r].taxamt = 7000

\* C10: in every reachable state of the editor the totals shown are the
\* sums over the lines in the table, and the balance label shows OK exactly
\* when the totals differ by less than 0.005.
C10_TotalsShown ==
    /\ totals.debits = SumDebits(lines)
    /\ totals.credits = SumCredits(lines)
    /\ totals.ok <=>
           Abs(SumDebits(lines) - SumCredits(lines)) * 10 < BalanceOkThousandths

\* a line was removed after an amount was entered: one line is left, the
\* totals are its amounts and the label shows the difference
C10_Witness ==
    /\ journal_entry_id = 0 /\ Len(lines) = 1 /\ nEdits >= 2
    /\ totals.debits = 0 /\ totals.credits = 9999 /\ ~totals.ok
    /\ totals.diff = 0 - 9999

\* C15: the step that receives a failure Result of create/update queues
\* the 'Save Error' box with the Result's error strings and nothing else
\* (no accept), emits nothing and makes no call; the step that receives a
\* success Result emits journal_entry_saved with the saved id and queues
\* the accept when no post was asked for, and calls the post, emitting
\* nothing yet, when one was; the step that receives the post's Result
\* emits the saved id, and queues the accept exactly when the post
\* succeeded.  No save emits twice: the emissions never outnumber the
\* create/update calls whose coroutine has ended.
AcceptQueued ==
    /\ Len(uiQueue') = Len(uiQueue) + 2
    /\ uiQueue'[Len(uiQueue')].ev = "accept"

SaveResultHandled ==
    \A i \in DOMAIN saveTasks :
        LET t == saveTasks[i]
        IN  /\ perform_save_saved(i, FALSE) =>
                /\ uiQueue' = Append(uiQueue,
                       Ev("msg", "Save Error",
                          [title |-> "Save Error", errors |-> ResultErrors]))
                /\ emitted' = emitted /\ calls' = calls
                /\ dlgState' = dlgState
            /\ (perform_save_saved(i, TRUE) /\ ~t.post) =>
                /\ emitted' = Append(emitted, t.saved)
                /\ AcceptQueued /\ calls' = calls
            /\ (perform_save_saved(i, TRUE) /\ t.post) =>
                /\ emitted' = emitted /\ uiQueue' = uiQueue
                /\ calls' = Append(calls, Call("post", t.saved, NoEntry))
            /\ \A ok \in BOOLEAN :
                   perform_save_posted(i, ok) =>
                       /\ emitted' = Append(emitted, t.saved)
                       /\ calls' = calls
                       /\ ok <=> AcceptQueued

EmittedOncePerSave ==
    Len(emitted) + Len(saveTasks)
        <= Len(SelectSeq(calls, LAMBDA c : c.op \in {"create", "update"}))
           + Len(SelectSeq(saveTasks, LAMBDA t : t.pc = "start"))

AcceptedOnlyAfterSave == dlgState = "accepted" => emitted # << >>

C15_SaveResultHandling ==
    /\ []EmittedOncePerSave /\ []AcceptedOnlyAfterSave
    /\ [][SaveResultHandled]_vars

\* the update of the loaded entry failed: the Save Error box with the
\* errors is up, the dialog is still open, nothing was emitted and no post
\* was called
C15_Witness ==
    /\ lastMsg = [title |-> "Save Error", errors |-> ResultErrors]
    /\ dlgState = "open" /\ emitted = << >> /\ saveTasks = << >>
    /\ \E k \in DOMAIN calls : calls[k].op = "update"
    /\ \A k \in DOMAIN calls : calls[k].op # "post"

\* C11: after every edit of the lines (a line added or removed, a debit,
\* a credit, a tax code or an account set), the tax amount shown on every
\* row is the tax TaxDue of that row's own debit/credit and tax code.
\* Edits made while a queued slot is still to refill the combos from newly
\* loaded reference data are left out.
TaxCurrentOnEveryRow ==
    \A r \in DOMAIN lines : lines[r].taxamt = TaxDue(lines[r], tax_codes_cache)

C11_TaxRecomputedOnEveryEdit ==
    [][(LineEdits /\ uiQueue = << >>) => TaxCurrentOnEveryRow']_vars

----------------------------------------------------------------------------
(* Properties of the list. *)

SelectedStatus(r) == status_at_row(table, r)

\* C5: in every reachable state Edit is enabled only when exactly one row is
\* selected and it is Draft, Reverse only when exactly one row is selected
\* and it is Posted, Post only when some selected row is Draft; a step that
\* opens an edit dialog opens it on the one selected row, which is Draft; a
\* step that schedules a post schedules it for ids of selected Draft rows; a
\* step that schedules a reversal schedules it for the one selected row,
\* which is Posted; and the list's calls to the manager are those scheduled.
ActionsGated ==
    /\ actions.edit =>
           \E r \in selection : selection = {r} /\ SelectedStatus(r) = "Draft"
    /\ actions.reverse =>
           \E r \in selection : selection = {r} /\ SelectedStatus(r) = "Posted"
    /\ actions.post => \E r \in selection : SelectedStatus(r) = "Draft"

HandlersGated ==
    /\ (dlgState # "open" /\ dlgState' = "open" /\ ~view_only_mode'
          /\ journal_entry_id' # 0) =>
           \E r \in selection :
               /\ selection = {r} /\ table[r].id = journal_entry_id'
               /\ table[r].status = "Draft"
    /\ Len(postTasks') > Len(postTasks) =>
           LET ids == postTasks'[Len(postTasks')].ids
           IN  /\ ids # << >>
               /\ \A k \in DOMAIN ids :
                      \E r \in selection :
                          table[r].id = ids[k] /\ table[r].status = "Draft"
    /\ Len(reverseTasks') > Len(reverseTasks) =>
           \E r \in selection :
               /\ selection = {r}
               /\ table[r].id = reverseTasks'[Len(reverseTasks')].id
               /\ table[r].status = "Posted"
    /\ (Len(calls') > Len(calls) /\ calls'[Len(calls')].op = "post") =>
           \E i \in DOMAIN postTasks :
               \E k \in DOMAIN postTasks[i].ids :
                   postTasks[i].ids[k] = calls'[Len(calls')].id
    /\ (Len(calls') > Len(calls) /\ calls'[Len(calls')].op = "reverse") =>
           \E i \in DOMAIN reverseTasks :
               reverseTasks[i].id = calls'[Len(calls')].id

C5_StatusGating == []ActionsGated /\ [][HandlersGated]_vars

\* the Draft row 7 is selected and its edit dialog is open
C5_Witness ==
    /\ dlgState = "open" /\ journal_entry_id = 7 /\ ~view_only_mode
    /\ \E r \in selection : selection = {r} /\ table[r] = Row(7, "Draft")
    /\ actions.edit /\ ~actions.reverse

\* nothing is running and nothing is queued
Quiescent ==
    /\ comboTask = "done" /\ entryTask = "done"
    /\ saveTasks = << >> /\ loadTasks = << >>
    /\ postTasks = << >> /\ reverseTasks = << >>
    /\ uiQueue = << >>

\* C8: once nothing is running any more, every create, update, post and
\* reverse call that was made has a listing request after it.
C8_RefetchAfterMutation ==
    Quiescent =>
        \A k \in DOMAIN calls :
            calls[k].op \in {"create", "update", "post", "reverse"} =>
                \E j \in DOMAIN calls : j > k /\ calls[j].op = "list"

\* C12: every reversal the manager made left a new entry in Draft state
\* and the original Posted; a step schedules a reversal only as the
\* handler of Reverse run for the one selected row, which is Posted, with
\* the confirmation answered Yes, a date that parsed and the description
\* input accepted (its text may be empty: the input is optional); and the
\* step in which a reversal succeeds queues the Success message naming the
\* new Draft entry and schedules a reload of the listing.
ReversalsAreDrafts ==
    \A k \in DOMAIN reversals :
        /\ reversals[k].value.status = "Draft"
        /\ reversals[k].original.status = "Posted"
        /\ reversals[k].value.id # reversals[k].original.id

ReversalRequestedAfter(descs) ==
    Len(reverseTasks') > Len(reverseTasks) =>
        LET t == reverseTasks'[Len(reverseTasks')]
        IN  /\ current_user
            /\ \E r \in selection :
                   selection = {r} /\ table[r] = Row(t.id, "Posted")
            /\ t.reversal_date = "valid"
            /\ t.description \in descs
            /\ \E d \in descs : on_reverse_entry(TRUE, "valid", TRUE, d)

ReversalReported ==
    Len(reversals') > Len(reversals) =>
        /\ Len(uiQueue') = Len(uiQueue) + 1
        /\ uiQueue'[Len(uiQueue')].title = "Success"
        /\ uiQueue'[Len(uiQueue')].payload.entry =
               reversals'[Len(reversals')].value
        /\ Len(loadTasks') = Len(loadTasks) + 1
        /\ loadTasks'[Len(loadTasks')].pc = "start"

C12_ReversalOnRequest ==
    /\ []ReversalsAreDrafts
    /\ [][ReversalRequestedAfter(Descriptions) /\ ReversalReported]_vars

\* the Posted entry 9 was reversed with an empty description: the Success
\* message names the new Draft entry and the listing was requested again
C12_Witness ==
    /\ Len(reversals) = 1 /\ reversals[1].original.id = 9
    /\ lastMsg = [title |-> "Success", entry |-> Row(NewId, "Draft")]
    /\ \E k \in DOMAIN calls :
           /\ calls[k].op = "reverse" /\ calls[k].data.description = ""
           /\ \E j \in DOMAIN calls : j > k /\ calls[j].op = "list"

\* C12 as stated: the description is supplied too, that is, not empty.
C12_ReversalDescribed ==
    /\ []ReversalsAreDrafts
    /\ [][ReversalRequestedAfter(Descriptions \ {""}) /\ ReversalReported]_vars

\* C13: a batch being posted goes on to its next entry, in the order of
\* the batch, whatever the Result of the entry before; and the step that
\* receives the Result of the last entry queues the report: its success
\* count is the number of entries that succeeded, it has one error line
\* for each entry that failed, the two add up to the size of the batch, and
\* its title is 'Posting Complete' when no entry failed, 'Posting Failed'
\* when none succeeded and 'Posting Partially Failed' otherwise.
RECURSIVE FailedIds(_, _)
FailedIds(ids, results) ==
    IF ids = << >> \/ results = << >> THEN << >>
    ELSE (IF Head(results) THEN << >> ELSE <<Head(ids)>>)
         \o FailedIds(Tail(ids), Tail(results))

BatchGoesOn ==
    \A i \in DOMAIN postTasks :
        (/\ postTasks[i].pc = "await"
         /\ Len(postTasks') = Len(postTasks)
         /\ postTasks'[i] # postTasks[i])
        => LET t == postTasks[i]
           IN  /\ t.k < Len(t.ids)
               /\ postTasks'[i].k = t.k + 1
               /\ postTasks'[i].ids = t.ids
               /\ calls' = Append(calls, Call("post", t.ids[t.k + 1], NoEntry))

BatchReport(t, last) ==
    LET results == Append(t.results, last)
        failed == FailedIds(t.ids, results)
        succeeded == Len(t.ids) - Len(failed)
    IN  PostReport(IF failed = << >> THEN "Posting Complete"
                   ELSE IF succeeded = 0 THEN "Posting Failed"
                   ELSE "Posting Partially Failed",
                   succeeded, Len(t.ids), failed)

BatchReported ==
    \A i \in DOMAIN postTasks :
        (postTasks[i].pc = "await" /\ postTasks' = RemoveAt(postTasks, i))
        => LET t == postTasks[i]
           IN  /\ t.k = Len(t.ids)
               /\ Len(t.results) = Len(t.ids) - 1
               /\ \E last \in BOOLEAN :
                      uiQueue' = Append(uiQueue,
                          Ev("msg", BatchReport(t, last).title,
                             BatchReport(t, last)))

C13_BatchPostReport == [][BatchGoesOn /\ BatchReported]_vars

\* C14: the step in which the external call of a background operation
\* raises (the listing load, the load of the existing entry, the two loads
\* of reference data, a save, a post, a reversal, the KPI fetch) records
\* an error in the log and queues a failure message box for the user.
Logged(what) == what \in errLog'

FailureQueued ==
    /\ Len(uiQueue') = Len(uiQueue) + 1
    /\ uiQueue'[Len(uiQueue')].ev = "msg"

ExceptionsSurfaced ==
    /\ (\E i \in DOMAIN loadTasks :
            load_entries_result(i, [kind |-> "raise", rows |-> << >>]))
           => Logged("listing") /\ FailureQueued
    /\ (ComboLoadAccounts("raise") \/ ComboLoadTaxCodes("raise"))
           => Logged("combo data") /\ FailureQueued
    /\ load_existing_journal_entry_raises
           => Logged("entry load") /\ FailureQueued
    /\ (\E i \in DOMAIN saveTasks : perform_save_raises(i))
           => Logged("save") /\ FailureQueued
    /\ (\E i \in DOMAIN postTasks : perform_post_entries_raises(i))
           => Logged("post") /\ FailureQueued
    /\ (\E i \in DOMAIN reverseTasks : perform_reverse_entry_raises(i))
           => Logged("reverse") /\ FailureQueued
    /\ (\E i \in DOMAIN kpiTasks :
            fetch_kpis_data_result(i, [kind |-> "raise", value |-> NoEntry]))
           => Logged("kpi fetch") /\ FailureQueued

C14_ExceptionsSurfaced == [][ExceptionsSurfaced]_vars

----------------------------------------------------------------------------
(* Properties of the dashboard. *)

\* the label texts that begin with "N/A"
NotAvailable(t) ==
    t \in {Text("N/A"), Text("N/A (Infinite)"), Text("N/A - Data unavailable")}

\* the queued slot is about to run with no payload or with one that
\* DashboardKPIData does not validate
SnapshotMissing ==
    /\ uiQueue # << >> /\ Head(uiQueue).ev = "kpi"
    /\ Head(uiQueue).payload.empty \/ ~Head(uiQueue).payload.wellFormed

\* C16: when the slot runs for a KPI request whose snapshot is missing or
\* does not deserialize, the dashboard goes on (the slot ends, the Refresh
\* button is enabled), every KPI value label shows an N/A placeholder and
\* both aging charts are empty; the warning box is shown in that step
\* exactly when the payload was not empty, and never for a snapshot that
\* deserialized; and after any run of the slot no KPI value label shows
\* 'Loading...'.
MissingSnapshotShown ==
    (update_kpi_display_slot /\ SnapshotMissing) =>
        /\ \A l \in KpiLabels : NotAvailable(kpi_labels'[l])
        /\ charts'.ar.bars = << >> /\ charts'.ap.bars = << >>
        /\ refresh_enabled'
        /\ IF Head(uiQueue).payload.empty
           THEN lastMsg' = lastMsg
           ELSE lastMsg' = Msg("Dashboard Data Error", 0, 0)

NoWarningForSnapshot ==
    (update_kpi_display_slot /\ ~SnapshotMissing) => lastMsg' = lastMsg

NoLabelLeftLoading ==
    update_kpi_display_slot =>
        \A l \in KpiLabels : kpi_labels'[l] # Text("Loading...")

C16_MissingSnapshotPlaceholders ==
    [][MissingSnapshotShown /\ NoWarningForSnapshot /\ NoLabelLeftLoading]_vars

\* a payload that did not deserialize: the warning was shown, the labels
\* show the placeholder and the charts are empty
C16_Witness ==
    /\ lastMsg = Msg("Dashboard Data Error", 0, 0)
    /\ \A l \in KpiLabels : kpi_labels[l] = Text("N/A - Data unavailable")
    /\ charts.ar = EmptyChart /\ charts.ap = EmptyChart
    /\ "kpi json" \in errLog /\ kpiTasks = << >>

\* C20: when the slot shows a snapshot, the label of each amount whose
\* value is a finite decimal shows it as currency, "<currency> d,ddd.dd":
\* the base currency, digits in groups of three, two decimals, the value
\* rounded to the nearest hundredth; the label of each finite ratio shows
\* "d.dd : 1" with the ratio to the nearest hundredth; and the label of a
\* value that is None or not finite shows N/A, for amounts and ratios.
KpiField(dto, l) ==
    CASE l = "revenue" -> dto.total_revenue_ytd
      [] l = "expenses" -> dto.total_expenses_ytd
      [] l = "net_profit" -> dto.net_profit_ytd
      [] l = "cash_balance" -> dto.current_cash_balance
      [] l = "ar" -> dto.total_outstanding_ar
      [] l = "ap" -> dto.total_outstanding_ap
      [] l = "ar_overdue" -> dto.total_ar_overdue
      [] l = "ap_overdue" -> dto.total_ap_overdue
      [] l = "current_ratio" -> dto.current_ratio
      [] l = "quick_ratio" -> dto.quick_ratio
      [] l = "debt_to_equity" -> dto.debt_to_equity_ratio

RECURSIVE GroupsValue(_)
GroupsValue(gs) ==
    IF gs = << >> THEN 0
    ELSE GroupsValue(SubSeq(gs, 1, Len(gs) - 1)) * GroupSize + gs[Len(gs)]

\* hundredths h are the thousandths n to the nearest hundredth
NearestHundredth(h, n) == 2 * Abs(h * ThouPerCent - n) <= ThouPerCent

ShownAsCurrency(t, v, symbol) ==
    /\ t.kind = "currency" /\ t.prefix = symbol
    /\ t.neg <=> v.thou < 0
    /\ t.frac \in 0..(CentsPerUnit - 1)
    /\ \A k \in DOMAIN t.groups : t.groups[k] \in 0..(GroupSize - 1)
    /\ Len(t.groups) >= 1 /\ (Len(t.groups) > 1 => t.groups[1] > 0)
    /\ NearestHundredth(GroupsValue(t.groups) * CentsPerUnit + t.frac,
                        Abs(v.thou))

ShownAsRatio(t, v) ==
    /\ t.kind = "ratio" /\ t.suffix = " : 1"
    /\ t.neg <=> v.thou < 0
    /\ t.frac \in 0..(CentsPerUnit - 1) /\ t.int >= 0
    /\ NearestHundredth(t.int * CentsPerUnit + t.frac, Abs(v.thou))

SnapshotShownFormatted ==
    (update_kpi_display_slot /\ ~SnapshotMissing) =>
        LET dto == Head(uiQueue).payload.fields
        IN  \A l \in KpiLabels :
                LET v == KpiField(dto, l)
                    t == kpi_labels'[l]
                IN  IF v.kind # "finite" THEN NotAvailable(t)
                    ELSE IF l \in AmountLabels
                    THEN ShownAsCurrency(t, v, dto.base_currency)
                    ELSE ShownAsRatio(t, v)

C20_KpiFormatting == [][SnapshotShownFormatted]_vars

\* the first snapshot is on display: 1,234.565 shows as SGD 1,234.56 and
\* the ratio 1.255 as 1.26 : 1
C20_Witness ==
    /\ kpi_labels["revenue"] =
           [kind |-> "currency", prefix |-> "SGD", neg |-> FALSE,
            groups |-> <<1, 234>>, frac |-> 56]
    /\ kpi_labels["quick_ratio"] =
           [kind |-> "ratio", neg |-> FALSE, int |-> 1, frac |-> 26,
            suffix |-> " : 1"]

----------------------------------------------------------------------------
(* Properties of the AccountType service. *)

\* every row is stored under its own id, below the id the table gives next
StoreKeyed ==
    /\ store[MissingId] = NoEntry
    /\ \A i \in 1..MaxTypeId :
        IF i < next_id THEN store[i] # NoEntry => store[i].id = i
        ELSE store[i] = NoEntry

\* a row the table has given out and that is no longer there was deleted
Deleted(id) == id < next_id /\ store[id] = NoEntry

\* C17: delete(id) of a stored id returns True, removes that row and no
\* other; delete(id) of an id that is not stored returns False, calls no
\* session.delete and leaves the table as it is.  Over add, get_by_id and
\* delete a deleted row stays deleted, so that afterwards get_by_id(id)
\* returns None and a second delete(id) returns False.
DeleteRemoves ==
    \A id \in LookupIds :
        delete(id) =>
            IF store[id] # NoEntry
            THEN /\ svc_result' = TRUE
                 /\ store'[id] = NoEntry
                 /\ \A k \in LookupIds \ {id} : store'[k] = store[k]
            ELSE /\ svc_result' = FALSE
                 /\ store' = store
                 /\ \A k \in DOMAIN session_calls' :
                        session_calls'[k].op # "delete"

DeletedStaysDeleted ==
    \A id \in 1..MaxTypeId :
        Deleted(id) =>
            /\ (\E e \in NewAccountTypes : add(e))
                   \/ (\E k \in LookupIds : get_by_id(k) \/ delete(k))
               => Deleted(id)'
            /\ get_by_id(id) => svc_result' = NoEntry
            /\ delete(id) => svc_result' = FALSE

C17_DeleteContract ==
    []StoreKeyed /\ [][DeleteRemoves /\ DeletedStaysDeleted]_vars

\* row 1 was deleted and deleting it again has returned False
C17_Witness ==
    /\ Deleted(1)
    /\ svc_call = SCall("delete", 1)
    /\ svc_result = FALSE

\* C18: get_by_id(id) returns the row stored under id, which carries that
\* id, or None when there is none; it makes one session.get(AccountType, id)
\* and no other session call, and leaves the table as it is.
GetByIdLooksUp ==
    \A id \in LookupIds :
        get_by_id(id) =>
            /\ svc_result' = store[id]
            /\ svc_result' # NoEntry => svc_result'.id = id
            /\ session_calls' = << SCall("get", id) >>
            /\ store' = store /\ next_id' = next_id

C18_GetById == [][GetByIdLooksUp]_vars

\* a row added by the service has been read back by its id
C18_Witness ==
    /\ svc_call = SCall("get_by_id", 2)
    /\ svc_result # NoEntry
    /\ svc_result = store[2]

\* C19: add(entity) and update(entity) call session.add(entity), then
\* session.flush(), then session.refresh(entity), and nothing else, and
\* return the entity with the name and category given, and with the id
\* given when it had one.
SavedThrough(e) ==
    /\ session_calls' = << SCall("add", e), SCall("flush", NoEntry),
                          SCall("refresh", e) >>
    /\ svc_result'.name = e.name
    /\ svc_result'.category = e.category
    /\ e.id # 0 => svc_result'.id = e.id
    /\ store'[svc_result'.id] = svc_result'

SavePassesThrough ==
    /\ \A e \in NewAccountTypes : add(e) => SavedThrough(e)
    /\ \A e \in Changed : update(e) => SavedThrough(e)

C19_AddUpdateSessionCalls == [][SavePassesThrough]_vars

\* an entity added by the service has been updated with another name
C19_Witness ==
    /\ svc_call.op = "update"
    /\ svc_call.arg.id = 2
    /\ svc_result = AccountTypeModel(2, "Updated Name", "Equity")
    /\ Len(session_calls) = 3

----------------------------------------------------------------------------
(* Properties of the saves a dialog issues. *)

\* the create and update calls made so far
SaveCalls == SelectSeq(calls, LAMBDA c : c.op \in {"create", "update"})

\* C21: the data of every save of a dialog opened on an entry carries the
\* source type and source id of that entry, as its load returned them; the
\* data of every save of a dialog opened for a new entry carries none.
LinkageCarried ==
    \A k \in DOMAIN SaveCalls :
        IF journal_entry_id = 0
        THEN /\ SaveCalls[k].data.source_type = ""
             /\ SaveCalls[k].data.source_id = 0
        ELSE loaded_orm # NoEntry =>
                /\ SaveCalls[k].data.source_type = loaded_orm.source_type
                /\ SaveCalls[k].data.source_id = loaded_orm.source_id

C21_LinkageCarriedThrough == []LinkageCarried

\* C22: a dialog opened on an entry id calls create_journal_entry never:
\* each of its saves is update_journal_entry for that id.
SavesAreUpdates ==
    journal_entry_id # 0 =>
        \A k \in DOMAIN SaveCalls :
            SaveCalls[k].op = "update" /\ SaveCalls[k].id = journal_entry_id

C22_ExistingEntryNeverCreated == []SavesAreUpdates

\* C24: a click on the delete button of the line at row r removes that line
\* and no other: the lines above and below stay, in their order.
DeleteButtonRemovesItsLine ==
    \A r \in 1..MaxLines :
        UserClickDelete(r) => lines' = RemoveAt(lines, r)

C24_DeleteButtonRemovesOwnLine == [][DeleteButtonRemovesItsLine]_vars

\* C25: a save passes validation, and so goes on to create or update, only
\* while the balance indicator shows 'Balance: OK'.
SavedOnlyWhenShownBalanced ==
    (on_save_draft \/ on_save_and_post) /\ Len(saveTasks') > Len(saveTasks)
        => totals.ok

C25_ValidationAgreesWithIndicator == [][SavedOnlyWhenShownBalanced]_vars

\* C23: a dialog opened for a new entry calls create_journal_entry at most
\* once, whatever saves are triggered on it.
CreateCalls == SelectSeq(calls, LAMBDA c : c.op = "create")

CreatedAtMostOnce == journal_entry_id = 0 => Len(CreateCalls) <= 1

C23_NewEntryCreatedOnce == []CreatedAtMostOnce

----------------------------------------------------------------------------
(* Properties of the dashboard's Refresh button. *)

\* C26: while a KPI fetch is in flight the Refresh button is disabled, and
\* no second fetch is in flight with it.
RefreshOffWhileFetching == kpiTasks # << >> => ~refresh_enabled

OneFetchAtATime == Len(kpiTasks) <= 1

C26_RefreshDisabledWhileFetching ==
    [](RefreshOffWhileFetching /\ OneFetchAtATime)

----------------------------------------------------------------------------
(* Properties of the listing's loads. *)

ListCalls == SelectSeq(calls, LAMBDA c : c.op = "list")

\* every load requested has completed and its slot has run
LoadsOver ==
    /\ loadTasks = << >>
    /\ \A k \in DOMAIN uiQueue : uiQueue[k].ev # "update_table"

\* C27: once the loads requested are over, none of them having failed, the
\* table shows what the load requested last returned: rows that pass the
\* status filter that load asked with.
TableOfLastRequest ==
    (LoadsOver /\ ListCalls # << >> /\ "listing" \notin errLog) =>
        Matches(table, ListCalls[Len(ListCalls)].data.status)

C27_LastRequestShown == []TableOfLastRequest

----------------------------------------------------------------------------
(* Properties of the two loads of a dialog opened on an entry. *)

\* both loads have delivered, their slots have run and the user has made
\* no input on the dialog
BothLoadsShown ==
    /\ journal_entry_id # 0
    /\ comboTask = "done" /\ entryTask = "done"
    /\ accounts_cache = AccountsResult /\ tax_codes_cache = TaxCodesResult
    /\ loaded_orm # NoEntry /\ existing_dict # NoEntry
    /\ \A k \in DOMAIN uiQueue :
           uiQueue[k].ev \notin {"populate", "update_combos"}
    /\ nEdits = 0

\* C28: once both loads of a dialog opened on an entry have delivered and
\* their slots have run, in whichever order, with no input of the user,
\* there is a row for every line of the entry, whose account combo holds
\* the line's account id, whose tax combo holds the line's tax code, and
\* whose Tax Amt is the tax due under that code.
LoadedLinesShown ==
    BothLoadsShown =>
        /\ loaded_orm.lines # << >> => Len(lines) = Len(loaded_orm.lines)
        /\ \A r \in DOMAIN loaded_orm.lines :
            /\ lines[r].acc = loaded_orm.lines[r].account_id
            /\ lines[r].tax = loaded_orm.lines[r].tax_code
            /\ lines[r].taxamt = TaxDue(lines[r], tax_codes_cache)
            /\ lines[r].debit = loaded_orm.lines[r].debit_amount
            /\ lines[r].credit = loaded_orm.lines[r].credit_amount

C28_LoadOrderIndependent == []LoadedLinesShown

\* the entry with the 7% line and the line on the inactive account is
\* shown, both loads over
C28_Witness ==
    /\ BothLoadsShown
    /\ Len(lines) = 2
    /\ lines[1].acc = 1 /\ lines[1].tax = "SR" /\ lines[1].taxamt = 7000
    /\ lines[2].acc = 3 /\ lines[2].tax = "OLD" /\ lines[2].taxamt = 0

----------------------------------------------------------------------------
(* Properties of the list without a user logged in. *)

\* one of the toolbar's actions New, Edit, View, Post, Reverse is handled
ToolbarAction ==
    \/ on_new_entry
    \/ on_edit_entry
    \/ on_view_entry_toolbar
    \/ on_post_entry
    \/ \E reply \in BOOLEAN, date \in {"cancel", "invalid", "valid"},
          ok_desc \in BOOLEAN, desc \in Descriptions :
           on_reverse_entry(reply, date, ok_desc, desc)

\* C29: with no user logged in, each of the actions New, Edit, View, Post
\* and Reverse shows the 'Auth Error' warning, opens no dialog, schedules no
\* post and no reversal, and leaves the table and the selection as they
\* are; a double click on a row opens no dialog either.  So no dialog is
\* ever open and the manager is never called to post or reverse.
AuthErrorOnly ==
    ~current_user =>
        /\ ToolbarAction =>
            /\ lastMsg' = Msg("Auth Error", 0, 0)
            /\ UNCHANGED <<dlgVars, postTasks, reverseTasks, calls, table,
                           selection>>
        /\ (\E row \in 1..2 : on_view_entry_double_click(row)) =>
            /\ lastMsg' = Msg("Auth Error", 0, 0)
            /\ UNCHANGED <<dlgVars, calls, table>>

NothingDoneLoggedOut ==
    ~current_user =>
        /\ dlgState = "none"
        /\ postTasks = << >> /\ reverseTasks = << >>
        /\ \A k \in DOMAIN calls : calls[k].op = "list"

C29_LoggedOutActionsRefused == []NothingDoneLoggedOut /\ [][AuthErrorOnly]_vars

\* nobody is logged in, a row of the listing is selected and an action on
\* it has been refused
C29_Witness ==
    /\ ~current_user
    /\ table # << >> /\ selection # {}
    /\ lastMsg = Msg("Auth Error", 0, 0)
    /\ nOps = 2

----------------------------------------------------------------------------
(* Properties of a listing load that fails. *)

\* a step in which _load_entries ends without a listing: the manager is
\* missing, the Result is a failure, or the call raised
LoadFails ==
    \/ \E i \in 1..Len(loadTasks) : ~hasManager /\ load_entries_start(i)
    \/ \E i \in 1..Len(loadTasks), res \in ListingResults :
           res.kind # "ok" /\ load_entries_result(i, res)

\* the slot receives a string that json.loads rejects
PayloadRejected ==
    /\ uiQueue # << >> /\ Head(uiQueue).ev = "update_table"
    /\ ~Head(uiQueue).payload.wellFormed
    /\ update_table_model_slot

\* the slot receives the rows of a successful load
SuccessfulLoadShown ==
    /\ uiQueue # << >> /\ Head(uiQueue).ev = "update_table"
    /\ Head(uiQueue).payload.wellFormed
    /\ update_table_model_slot

\* C30: a load that fails leaves the rows of the table and the selection as
\* they were, logs the error and queues its message box ('Critical Error'
\* without a manager, 'Load Error' otherwise); a payload that does not
\* parse leaves the rows and shows 'Data Error'; and the rows change only
\* when the slot receives the rows of a successful load.
FailedLoadKeepsRows ==
    /\ LoadFails =>
        /\ UNCHANGED <<table, selection, actions>>
        /\ "listing" \in errLog'
        /\ uiQueue' = Append(uiQueue,
              QueuedMsg(IF hasManager THEN "Load Error"
                                      ELSE "Critical Error"))
    /\ PayloadRejected =>
        /\ UNCHANGED <<table, selection>>
        /\ lastMsg' = Msg("Data Error", 0, 0)
    /\ table' # table => SuccessfulLoadShown

C30_FailedLoadKeepsRows == [][FailedLoadKeepsRows]_vars

\* a reload of a listing with rows has failed: the message is on the
\* screen, the error is logged and the rows are still shown
C30_Witness ==
    /\ table # << >>
    /\ loadTasks = << >> /\ uiQueue = << >>
    /\ "listing" \in errLog
    /\ lastMsg = Msg("Load Error", 0, 0)

============================================================================
